---- MODULE Spec2Model ----
(***************************************************************************)
(* State-machine model of the ariana CLI harness (cli/src).                *)
(*                                                                         *)
(* Spec     : run_main (main.rs) with the trace shipper watch_traces       *)
(*            (trace_watcher.rs), the child process and Ctrl-C.            *)
(* PrepSpec : process_items followed by restore_backup (processor.rs).     *)
(* CollSpec : collect_items (collector.rs) over a project tree.            *)
(* ShipSpec : watch_subprocess_output (subprocess_stdout_watcher.rs).      *)
(* ExtSpec  : the handling of one stdout line (main.rs:205-253).           *)
(* MirSpec  : the tasks of process_items outside the sources.              *)
(* RunsSpec : PrepSpec with runs of the command following one another.     *)
(* LiveSpec, LiveShipSpec : Spec and ShipSpec with fair scheduling.        *)
(***************************************************************************)
EXTENDS Integers, Sequences, FiniteSets, TLC

\* ------------------------------------------------------------------------
\* Bounds of the model
\* ------------------------------------------------------------------------

\* the child prints at most this many stdout lines in one run
MaxLines == 3

\* number of source files of the project that may be instrumented
NumFiles == 3

\* number of paths under project_root that collect_items may find
NumNodes == 5

\* number of output lines the caller places on the shipper's input channel
MaxOut == 3

\* capacity of the input channel of the output shipper (made by its caller)
OutChanCap == 2

\* ------------------------------------------------------------------------
\* Program constants
\* ------------------------------------------------------------------------

\* trace_watcher.rs:14  `let batch_size = 50_000;` scaled down so that the
\* size trigger is reached inside the bounds of the model
batch_size == 3

\* processor.rs:37  `files.chunks(300)` scaled down so that a preparation
\* takes several batches inside the bounds of the model
chunk_len == 2

\* collector.rs:105  `metadata.len() >= 4 * 1024 * 1024`
MaxInstrumentLen == 4194304

\* subprocess_stdout_watcher.rs:37  `mpsc::channel(10_000)` scaled down so
\* that the internal queue fills inside the bounds of the model
InternalCap == 2

\* main.rs:218  length of "</trace>"
CloseLen == 8

\* main.rs:221  width of the window searched for the opening quote of the id
IdWindow == 20

\* main.rs:222  width of the window searched for the closing quote of the id
QuoteWindow == 50

\* ------------------------------------------------------------------------
\* Strings as sequences of one-character strings, 0-based offsets as in Rust
\* ------------------------------------------------------------------------

MinOf(S) == CHOOSE x \in S : \A y \in S : x <= y

\* str::find: offset of the first occurrence of pat in s, -1 for None
Find(s, pat) ==
  LET hits == { k \in 0..(Len(s) - Len(pat)) : SubSeq(s, k + 1, k + Len(pat)) = pat }
  IN IF hits = {} THEN -1 ELSE MinOf(hits)

\* &s[a..b] is a panic unless a <= b <= len
SliceOk(s, a, b) == 0 <= a /\ a <= b /\ b <= Len(s)

Slice(s, a, b) == SubSeq(s, a + 1, b)

RECURSIVE Rep(_, _)
Rep(c, n) == IF n = 0 THEN <<>> ELSE <<c>> \o Rep(c, n - 1)

OpenTag == <<"<", "t", "r", "a", "c", "e", " ", "i", "d", "=">>

CloseTag == <<"<", "/", "t", "r", "a", "c", "e", ">">>

Quote == <<"\"">>

\* serde_json::from_str::<Trace>(trace_content): the Trace type lives in the
\* server crate; a payload decodes iff it is a braced JSON object
Decodes(payload) ==
  /\ Len(payload) >= 2
  /\ payload[1] = "{"
  /\ payload[Len(payload)] = "}"

\* ------------------------------------------------------------------------
\* The trace extractor: body of the stdout loop, main.rs:206-252
\* ------------------------------------------------------------------------

\* One pass of `while let Some(start_idx) = line[current_pos..].find(..)`.
\* acc = [pos, out, sent, panic]: current_pos, processed_line, the payloads
\* handed to trace_tx.send so far, and whether a slice or unwrap panicked.
RECURSIVE ScanFrom(_, _)
ScanFrom(line, acc) ==
  LET start_idx == Find(Slice(line, acc.pos, Len(line)), OpenTag)
      absolute_start == acc.pos + start_idx
      out1 == acc.out \o Slice(line, acc.pos, absolute_start)
      end_idx == Find(Slice(line, absolute_start, Len(line)), CloseTag)
      absolute_end == absolute_start + end_idx + CloseLen
      id_start == Find(Slice(line, absolute_start, absolute_start + IdWindow), Quote)
      id_end == Find(Slice(line, absolute_start + id_start + 1,
                           absolute_start + QuoteWindow), Quote)
      content_start == absolute_start + id_start + id_end + 3
      content_end == absolute_start + end_idx
      trace_content == Slice(line, content_start, content_end)
      panicked == [acc EXCEPT !.out = out1, !.panic = TRUE]
  IN IF start_idx = -1
       THEN \* main.rs:245-247 remaining text after the last trace tag
            [acc EXCEPT !.out = acc.out \o Slice(line, acc.pos, Len(line)),
                        !.pos = Len(line)]
     ELSE IF end_idx = -1
       THEN \* main.rs:236-240 no closing tag: keep the rest and break
            [acc EXCEPT !.out = out1 \o Slice(line, absolute_start, Len(line)),
                        !.pos = Len(line)]
     ELSE IF ~SliceOk(line, absolute_start, absolute_start + IdWindow)
       THEN panicked
     ELSE IF id_start = -1
       THEN ScanFrom(line, [acc EXCEPT !.out = out1, !.pos = absolute_end])
     ELSE IF ~SliceOk(line, absolute_start + id_start + 1, absolute_start + QuoteWindow)
       THEN panicked
     ELSE IF id_end = -1
       THEN ScanFrom(line, [acc EXCEPT !.out = out1, !.pos = absolute_end])
     ELSE IF ~SliceOk(line, content_start, content_end)
       THEN panicked
     ELSE IF ~Decodes(trace_content)
       THEN panicked
     ELSE ScanFrom(line, [acc EXCEPT !.out = out1, !.pos = absolute_end,
                                     !.sent = Append(acc.sent, trace_content)])

Scan(line) == ScanFrom(line, [pos |-> 0, out |-> <<>>, sent |-> <<>>, panic |-> FALSE])

\* main.rs:250 the characters trim_matches removes
BlankChars == {" ", "\n", "\t", "\r", "\\x08"}

IsBlankSpacesOnly(s) == \A i \in 1..Len(s) : s[i] = " "

\* main.rs:250 processed_line.trim_matches(..).is_empty()
IsBlank(s) == \A i \in 1..Len(s) : s[i] \in BlankChars

\* main.rs:249-252 the end of the handling of line k, `records` payloads
\* having been sent: println!("{}", processed_line) unless the line is blank
\* (nothing is printed either when the handling ended in a panic)
Handled(k, res, records) ==
  LET printed == ~res.panic /\ ~IsBlank(res.out)
  IN [k |-> k, records |-> records, printed |-> printed,
      text |-> IF printed THEN res.out ELSE <<>>]

\* ------------------------------------------------------------------------
\* What the child may print: one entry per kind of stdout line.
\* utf8 = FALSE is a line next_line() fails to decode.
\* ------------------------------------------------------------------------

Envelope(id, payload) ==
  OpenTag \o Quote \o id \o Quote \o <<">">> \o payload \o CloseTag

LongPayload == <<"{">> \o Rep("x", 30) \o <<"}">>

ShortPayload == <<"{", "}">>

BadPayload == <<"{">> \o Rep("x", 31)

StdoutLines ==
  << [utf8 |-> TRUE,  text |-> <<"h", "i">>],
     [utf8 |-> TRUE,  text |-> Envelope(<<"1">>, LongPayload)],
     [utf8 |-> TRUE,  text |-> Envelope(<<"1">>, LongPayload) \o <<"x">>
                                \o Envelope(<<"2">>, LongPayload)],
     [utf8 |-> TRUE,  text |-> <<"a", " ">> \o Envelope(<<"1">>, ShortPayload)
                                \o <<" ", "b">>],
     [utf8 |-> TRUE,  text |-> Envelope(<<"1">>, BadPayload)],
     [utf8 |-> FALSE, text |-> <<>>] >>

LineKinds == 1..Len(StdoutLines)

\* main.rs:205 `reader.next_line().await.unwrap_or_else(|_| Some(String::new()))`
next_line(k) == IF StdoutLines[k].utf8 THEN StdoutLines[k].text ELSE <<>>

\* ------------------------------------------------------------------------
\* State of one run of the harness
\* ------------------------------------------------------------------------

VARIABLES
  inplace,      \* cli.inplace
  mpc,          \* where run_main is; the values of Exited are the ways it ends
  modified,     \* in-place instrumentation has written to original files
  restoreRan,   \* restore_from_backup has been called
  restored,     \* restore_from_backup has returned Ok
  handlerSet,   \* ctrlc::set_handler has been installed
  running,      \* the AtomicBool `running`, cleared by the Ctrl-C handler
  status,       \* result of child.wait(): NoStatus until then
  exitCode,     \* exit code of the harness process: NoStatus until it ends
  child,        \* "none", "running", "exited"
  stdoutOpen,   \* the write end of the child's stdout pipe is open
  childStatus,  \* exit status of the child once it has exited
  printed,      \* number of lines the child has printed
  pipe,         \* lines printed and not yet read (kinds of StdoutLines)
  cur,          \* kind of the line the stdout loop is scanning
  sentInLine,   \* payloads of the current line already sent on trace_tx
  terminal,     \* for every line handled, what println! wrote for it
  nsent,        \* trace records sent on trace_tx so far; record n is the n-th
  chan,         \* the trace channel, mpsc::channel::<Trace>(1)
  stopChan,     \* the stop channel, mpsc::channel::<()>(1): a message is queued
  wpc,          \* the watch_traces task: "none", "select", "push", "ok", "failed"
  traces,       \* watch_traces: the buffer `traces`
  wq,           \* watch_traces: chunks of the stop branch still to be pushed
  after,        \* what follows the push in flight: "clear" or "next"
  pushes,       \* bodies of the push requests issued, in order of dispatch
  answered,     \* number of push requests that have returned
  pushFailed    \* some push request has failed

mainVars == <<inplace, mpc, modified, restoreRan, restored, handlerSet, running,
              status, exitCode>>

childVars == <<child, stdoutOpen, childStatus, printed, pipe>>

readerVars == <<cur, sentInLine, nsent, terminal>>

watcherVars == <<wpc, traces, wq, after, pushes, answered, pushFailed>>

runVars == <<mainVars, childVars, readerVars, chan, stopChan, watcherVars>>

\* ------------------------------------------------------------------------
\* State of one preparation (process_items) and one restore (restore_backup)
\* ------------------------------------------------------------------------

VARIABLES
  is_inplace,   \* the is_inplace argument of process_items
  fsize,        \* size of each source file, as fs::metadata reports it
  files,        \* the vector `files` (source paths; the destination follows)
  fsys,         \* content of every path of the file system, Absent if none
  fsys0,        \* the file system before the preparation
  zipExists,    \* .ariana/__ariana_backups.zip exists
  zip,          \* entries of the archive, in order: [name, content]
  ppc,          \* where the preparation or the restore is
  bi,           \* offset in `files` of the batch being processed
  resp,         \* maybe_instrumented_contents of the batch being processed
  fi,           \* slots of the batch already applied; then entries restored
  rpcs,         \* files_paths of every instrument-batched request, in order
  failedFiles,  \* source paths of the batches whose request failed
  wrote         \* paths written with fs::write by the preparation

prepVars == <<is_inplace, fsize, files, fsys, fsys0, zipExists, zip, ppc, bi, resp,
              fi, rpcs, failedFiles, wrote>>

\* ------------------------------------------------------------------------
\* State of one walk of the project (collect_items, collector.rs:14-100)
\* ------------------------------------------------------------------------

VARIABLES
  tree,                         \* the entry at every path under project_root
  rootIgnore,                   \* the path matched by the root's ignore files
  subIgnore,                    \* directory 1 holds a .gitignore matching path 2
  cpc,                          \* where collect_items is
  entries,                      \* the vector `entries` (popped from its end)
  ignore_builder,               \* paths matched by the patterns added so far
  directories_to_link_or_copy,
  parents_of_files,
  files_to_instrument,
  files_to_link_or_copy,
  walked                        \* the entries popped from `entries`

collVars == <<tree, rootIgnore, subIgnore, cpc, entries, ignore_builder,
              directories_to_link_or_copy, parents_of_files, files_to_instrument,
              files_to_link_or_copy, walked>>

\* ------------------------------------------------------------------------
\* State of the output shipper (watch_subprocess_output,
\* subprocess_stdout_watcher.rs:22-127) and of its caller
\* ------------------------------------------------------------------------

VARIABLES
  output_rx,      \* lines on the input channel, oldest first
  outClosed,      \* every sender of the input channel has been dropped
  produced,       \* number of lines the caller has placed on the input channel
  stop_rx,        \* stop signals waiting on the stop channel
  task_stop_rx,   \* stop signals waiting on the forwarder's stop channel
  internal_rx,    \* lines in the internal queue, oldest first
  fpc,            \* where the forwarder task is
  held,           \* the line the forwarder is sending to the internal queue
  spc,            \* where watch_subprocess_output is
  shutting_down,
  ws_stream,      \* the socket in use: 0 the first, +1 for every reconnect
  payload,        \* the line the main loop is handling
  wire,           \* what happened on the network, in order
  early           \* the lines placed on the input channel before the stop was sent

shipVars == <<output_rx, outClosed, produced, stop_rx, task_stop_rx, internal_rx,
              fpc, held, spc, shutting_down, ws_stream, payload, wire, early>>

\* ------------------------------------------------------------------------
\* State of the handling of one stdout line (body of the loop of
\* main.rs:205-253), taken on its own
\* ------------------------------------------------------------------------

VARIABLES
  stdout_line,    \* the `line` that next_line() returned
  processed_line, \* the String `processed_line` when the handling ended
  trace_tx,       \* payloads of the records sent on trace_tx for the line
  stdout,         \* what println! wrote for the line
  xpc             \* "idle", "next_line", "handled" or "panic"

extVars == <<stdout_line, processed_line, trace_tx, stdout, xpc>>

\* ------------------------------------------------------------------------
\* State of one preparation outside the sources: the tasks of process_items
\* (processor.rs:150-212) on a project of two nested directories and a file
\* ------------------------------------------------------------------------

VARIABLES
  items,          \* the CollectedItems handed to process_items
  meta,           \* fs::metadata(..).len() and the extension of every source
  disk,           \* the entry at every path of the file system
  tasks,          \* the spawned tasks, each with its pair and its position
  written,        \* the writes made: the path named and the path reached
  jpc             \* where process_items is: "idle", "tasks" or "done"

mirVars == <<items, meta, disk, tasks, written, jpc>>

sideVars == <<collVars, shipVars, extVars, mirVars>>

vars == <<runVars, prepVars, sideVars>>

\* Source files are numbered 1..NumFiles. A path is <<directory, name>>; the
\* name of file 1 is not valid Unicode, and name 0 is what that name becomes
\* when its invalid bytes are replaced by U+FFFD.
FileIds == 1..NumFiles

Src(i) == <<"root", i>>

\* utils.rs:211-215 compute_dest_path: ariana_dir.join(relative path)
compute_dest_path(src_path) == <<"ariana", src_path[2]>>

\* processor.rs:89 `src_path.to_string_lossy().to_string()`, read back by
\* processor.rs:240-241 `Path::new(&filename)`
to_string_lossy(path) == IF path[2] = 1 THEN <<path[1], 0>> ELSE path

AllPaths == {<<d, i>> : d \in {"root", "ariana"}, i \in 0..NumFiles}

Absent == <<"absent">>

Original(i) == <<"original", i>>

\* the string the service returns in a Some slot for the file it was sent
\* under the name files_paths[i]
Instrumented(name) == <<"instrumented", name[2]>>

\* process_items is not running outside the sources
MirQuiet ==
  /\ items = <<>>
  /\ meta = <<>>
  /\ disk = <<>>
  /\ tasks = <<>>
  /\ written = {}
  /\ jpc = "idle"

\* no line is being handled on its own
ExtQuiet ==
  /\ stdout_line = <<>>
  /\ processed_line = <<>>
  /\ trace_tx = <<>>
  /\ stdout = <<>>
  /\ xpc = "idle"

\* nothing is being prepared or restored
PrepQuiet ==
  /\ is_inplace = FALSE
  /\ fsize = [i \in FileIds |-> 1]
  /\ files = <<>>
  /\ fsys = [q \in AllPaths |-> Absent]
  /\ fsys0 = [q \in AllPaths |-> Absent]
  /\ zipExists = FALSE
  /\ zip = <<>>
  /\ ppc = "idle"
  /\ bi = 0
  /\ resp = <<>>
  /\ fi = 0
  /\ rpcs = <<>>
  /\ failedFiles = {}
  /\ wrote = {}

\* status.code() is None for a child killed by a signal
Signalled == -1

NoStatus == -2

\* exit codes a child may return
ChildCodes == {0, 2}

\* trace channel capacity, main.rs:152
TraceChanCap == 1

\* std: exit code of a process whose main returned Err
ErrExit == 1

\* std: exit code of a process whose main thread panicked
PanicExit == 101

\* exit code reported for a process killed by SIGINT (128 + 2)
SigintExit == 130

Exited == {"done", "err_prepare", "err_spawn", "err_send", "err_wait",
           "err_restore", "panic", "killed"}

Alive == mpc \notin Exited

\* run_main has not started
RunStart ==
  /\ mpc = "prepare"
  /\ modified = FALSE
  /\ restoreRan = FALSE
  /\ restored = FALSE
  /\ handlerSet = FALSE
  /\ running = TRUE
  /\ status = NoStatus
  /\ exitCode = NoStatus
  /\ child = "none"
  /\ stdoutOpen = FALSE
  /\ childStatus = NoStatus
  /\ printed = 0
  /\ pipe = <<>>
  /\ cur = 0
  /\ sentInLine = 0
  /\ terminal = <<>>
  /\ nsent = 0
  /\ chan = <<>>
  /\ stopChan = FALSE
  /\ wpc = "none"
  /\ traces = <<>>
  /\ wq = <<>>
  /\ after = "clear"
  /\ pushes = <<>>
  /\ answered = 0
  /\ pushFailed = FALSE

\* ------------------------------------------------------------------------
\* The project tree walked by collect_items
\* ------------------------------------------------------------------------

\* Paths under project_root are numbered 1..NumNodes; 0 is project_root and
\* Outside stands for the directories above it.
Nodes == 1..NumNodes

Outside == -1

\* 1 and 2 are under project_root, 3 under 1, 4 under 3, and n under n - 4
Parent(n) ==
  IF n = 0 THEN Outside
  ELSE IF n \in {1, 2} THEN 0
  ELSE IF n = 3 THEN 1
  ELSE IF n = 4 THEN 3
  ELSE n - 4

Children(d) == {n \in Nodes : Parent(n) = d}

\* names are sequences of pieces, "." and "_" being pieces of their own
NoEntry == [type |-> "none", name |-> <<>>, len |-> 0]

Dir(name) == [type |-> "dir", name |-> name, len |-> 0]

File(name, len) == [type |-> "file", name |-> name, len |-> len]

Symlink == [type |-> "symlink", name |-> <<"ln">>, len |-> 0]

DirEntries ==
  {Dir(<<"src">>), Dir(<<"node_modules">>), Dir(<<".", "git">>),
   Dir(<<"my", ".", "dir">>)}

FileEntries ==
  {File(<<"a", ".", "js">>, 1), File(<<"a", ".", "js">>, MaxInstrumentLen),
   File(<<"a", ".", "JS">>, 1), File(<<"a", ".", "txt">>, 1),
   File(<<"x", ".", "config", ".", "js">>, 1), File(<<"README">>, 1)}

\* what a path directly under project_root may be, and what a deeper one
EntriesAt(n) ==
  IF Parent(n) = 0
    THEN DirEntries \cup FileEntries \cup {Symlink, NoEntry}
    ELSE {Dir(<<"src">>), File(<<"a", ".", "js">>, 1), File(<<"a", ".", "txt">>, 1),
          NoEntry}

\* the trees: only a directory has entries below it
Trees ==
  {t \in [Nodes -> DirEntries \cup FileEntries \cup {Symlink, NoEntry}] :
     \A n \in Nodes :
        /\ t[n] \in EntriesAt(n)
        /\ (Parent(n) # 0 /\ t[Parent(n)].type # "dir") => t[n] = NoEntry}

\* a line of the child's output on its way to the service
NoLine == [n |-> 0, source |-> "none"]

\* watch_subprocess_output is not running
ShipQuiet ==
  /\ output_rx = <<>>
  /\ outClosed = FALSE
  /\ produced = 0
  /\ stop_rx = 0
  /\ task_stop_rx = 0
  /\ internal_rx = <<>>
  /\ fpc = "none"
  /\ held = NoLine
  /\ spc = "idle"
  /\ shutting_down = FALSE
  /\ ws_stream = 0
  /\ payload = NoLine
  /\ wire = <<>>
  /\ early = {}

\* collect_items is not running
CollQuiet ==
  /\ tree = [n \in Nodes |-> NoEntry]
  /\ rootIgnore = 0
  /\ subIgnore = FALSE
  /\ cpc = "idle"
  /\ entries = <<>>
  /\ ignore_builder = {}
  /\ directories_to_link_or_copy = {}
  /\ parents_of_files = {}
  /\ files_to_instrument = {}
  /\ files_to_link_or_copy = {}
  /\ walked = {}

Init ==
  /\ inplace \in BOOLEAN
  /\ RunStart
  /\ PrepQuiet
  /\ CollQuiet
  /\ ShipQuiet
  /\ ExtQuiet
  /\ MirQuiet

\* run_main returns Err(..) or panics: the process ends with that exit code
Abort(how, code) ==
  /\ mpc' = how
  /\ exitCode' = code

\* ------------------------------------------------------------------------
\* run_main, main.rs:106-283
\* ------------------------------------------------------------------------

\* main.rs:134-143 the working directory: in place, process_directory_backup
\* copies the project under .ariana; otherwise instrumentalize_project fills
\* the mirror. Either may fail, and `?` returns the error.
PrepareWorkingDir ==
  /\ mpc = "prepare"
  /\ \E ok \in BOOLEAN :
       IF ok THEN mpc' = "instrument" /\ exitCode' = exitCode
             ELSE Abort("err_prepare", ErrExit)
  /\ UNCHANGED <<inplace, modified, restoreRan, restored, handlerSet, running, status>>
  /\ UNCHANGED <<childVars, readerVars, chan, stopChan, watcherVars>>
  /\ UNCHANGED <<prepVars, sideVars>>

\* main.rs:146-157 in place, instrumentalize_project overwrites the original
\* files one by one and may fail part-way; then the trace watcher is spawned.
InstrumentInPlace ==
  /\ mpc = "instrument"
  /\ modified' = inplace
  /\ \E ok \in BOOLEAN :
       IF ok \/ ~inplace
         THEN /\ mpc' = "spawn"
              /\ wpc' = "select"
              /\ exitCode' = exitCode
         ELSE /\ Abort("err_prepare", ErrExit)
              /\ wpc' = wpc
  /\ UNCHANGED <<inplace, restoreRan, restored, handlerSet, running, status>>
  /\ UNCHANGED <<childVars, readerVars, chan, stopChan>>
  /\ UNCHANGED <<traces, wq, after, pushes, answered, pushFailed>>
  /\ UNCHANGED <<prepVars, sideVars>>

\* main.rs:173-200 Command::spawn()? and, on success, ctrlc::set_handler
SpawnChild ==
  /\ mpc = "spawn"
  /\ \E ok \in BOOLEAN :
       IF ok
         THEN /\ mpc' = "read"
              /\ child' = "running"
              /\ stdoutOpen' = TRUE
              /\ handlerSet' = TRUE
              /\ exitCode' = exitCode
         ELSE /\ Abort("err_spawn", ErrExit)
              /\ UNCHANGED <<child, stdoutOpen, handlerSet>>
  /\ UNCHANGED <<inplace, modified, restoreRan, restored, running, status>>
  /\ UNCHANGED <<childStatus, printed, pipe>>
  /\ UNCHANGED <<readerVars, chan, stopChan, watcherVars>>
  /\ UNCHANGED <<prepVars, sideVars>>

\* main.rs:205-252 next_line() yields a line: scan it up to the first
\* trace_tx.send, or to its end when it has no record to send
ReadLine ==
  /\ mpc = "read"
  /\ pipe # <<>>
  /\ LET k == Head(pipe)
         res == Scan(next_line(k))
     IN /\ pipe' = Tail(pipe)
        /\ IF res.sent # <<>>
             THEN /\ mpc' = "send"
                  /\ cur' = k
                  /\ exitCode' = exitCode
             ELSE /\ cur' = cur
                  /\ IF res.panic THEN Abort("panic", PanicExit)
                                  ELSE mpc' = "read" /\ exitCode' = exitCode
        /\ terminal' = IF res.sent # <<>> THEN terminal
                       ELSE Append(terminal, Handled(k, res, 0))
  /\ sentInLine' = 0
  /\ UNCHANGED <<inplace, modified, restoreRan, restored, handlerSet, running, status>>
  /\ UNCHANGED <<child, stdoutOpen, childStatus, printed>>
  /\ UNCHANGED <<nsent, chan, stopChan, watcherVars>>
  /\ UNCHANGED <<prepVars, sideVars>>

\* main.rs:230 `trace_tx.send(trace).await?`: Err once the receiver is dropped
\* (the watcher task has ended), else waits for room in the channel; then the
\* scan goes on to the next send, to a panic, or to the end of the line
SendTrace ==
  /\ mpc = "send"
  /\ LET res == Scan(next_line(cur))
     IN IF wpc \in {"ok", "failed"}
          THEN /\ Abort("err_send", ErrExit)
               /\ UNCHANGED <<sentInLine, nsent, chan, terminal>>
          ELSE /\ Len(chan) < TraceChanCap
               /\ chan' = Append(chan, nsent + 1)
               /\ nsent' = nsent + 1
               /\ sentInLine' = sentInLine + 1
               /\ terminal' = IF sentInLine + 1 < Len(res.sent) THEN terminal
                              ELSE Append(terminal, Handled(cur, res, sentInLine + 1))
               /\ IF sentInLine + 1 < Len(res.sent)
                    THEN mpc' = "send" /\ exitCode' = exitCode
                  ELSE IF res.panic
                    THEN Abort("panic", PanicExit)
                  ELSE mpc' = "read" /\ exitCode' = exitCode
  /\ UNCHANGED <<inplace, modified, restoreRan, restored, handlerSet, running, status>>
  /\ UNCHANGED <<childVars, cur, stopChan, watcherVars>>
  /\ UNCHANGED <<prepVars, sideVars>>

\* main.rs:205 next_line() yields None: the pipe is drained and closed
ReadEof ==
  /\ mpc = "read"
  /\ pipe = <<>>
  /\ ~stdoutOpen
  /\ mpc' = "wait"
  /\ UNCHANGED <<inplace, modified, restoreRan, restored, handlerSet, running,
                 status, exitCode>>
  /\ UNCHANGED <<childVars, readerVars, chan, stopChan, watcherVars>>
  /\ UNCHANGED <<prepVars, sideVars>>

\* main.rs:262 `child.wait().await?`
WaitChild ==
  /\ mpc = "wait"
  /\ child = "exited"
  /\ \E ok \in BOOLEAN :
       IF ok THEN /\ mpc' = "stop"
                  /\ status' = childStatus
                  /\ exitCode' = exitCode
             ELSE /\ Abort("err_wait", ErrExit)
                  /\ status' = status
  /\ UNCHANGED <<inplace, modified, restoreRan, restored, handlerSet, running>>
  /\ UNCHANGED <<childVars, readerVars, chan, stopChan, watcherVars>>
  /\ UNCHANGED <<prepVars, sideVars>>

\* main.rs:265 `let _ = stop_tx.send(()).await`: the error of a send to a
\* dropped receiver is ignored
SendStop ==
  /\ mpc = "stop"
  /\ stopChan' = (wpc \notin {"ok", "failed"})
  /\ mpc' = "join"
  /\ UNCHANGED <<inplace, modified, restoreRan, restored, handlerSet, running,
                 status, exitCode>>
  /\ UNCHANGED <<childVars, readerVars, chan, watcherVars>>
  /\ UNCHANGED <<prepVars, sideVars>>

\* main.rs:268 `let _ = trace_watcher.await`
JoinWatcher ==
  /\ mpc = "join"
  /\ wpc \in {"ok", "failed"}
  /\ mpc' = "restore"
  /\ UNCHANGED <<inplace, modified, restoreRan, restored, handlerSet, running,
                 status, exitCode>>
  /\ UNCHANGED <<childVars, readerVars, chan, stopChan, watcherVars>>
  /\ UNCHANGED <<prepVars, sideVars>>

\* main.rs:271-275 `if cli.inplace { restore_from_backup(..)?; }`
Restore ==
  /\ mpc = "restore"
  /\ IF inplace
       THEN /\ restoreRan' = TRUE
            /\ \E ok \in BOOLEAN :
                 IF ok THEN /\ restored' = TRUE
                            /\ mpc' = "exit"
                            /\ exitCode' = exitCode
                       ELSE /\ restored' = restored
                            /\ Abort("err_restore", ErrExit)
       ELSE /\ mpc' = "exit"
            /\ UNCHANGED <<restoreRan, restored, exitCode>>
  /\ UNCHANGED <<inplace, modified, handlerSet, running, status>>
  /\ UNCHANGED <<childVars, readerVars, chan, stopChan, watcherVars>>
  /\ UNCHANGED <<prepVars, sideVars>>

\* main.rs:278-280 the code passed to exit(), 0 when run_main returns Ok(())
ExitCodeOf(st) == IF st = 0 THEN 0 ELSE IF st = Signalled THEN 1 ELSE st

\* main.rs:277-282
Exit ==
  /\ mpc = "exit"
  /\ mpc' = "done"
  /\ exitCode' = ExitCodeOf(status)
  /\ UNCHANGED <<inplace, modified, restoreRan, restored, handlerSet, running, status>>
  /\ UNCHANGED <<childVars, readerVars, chan, stopChan, watcherVars>>
  /\ UNCHANGED <<prepVars, sideVars>>

\* main.rs:193-196 SIGINT: the handler clears `running`; before the handler
\* is installed the default disposition ends the process
CtrlC ==
  /\ Alive
  /\ IF handlerSet
       THEN /\ running
            /\ running' = FALSE
            /\ UNCHANGED <<mpc, exitCode>>
       ELSE /\ Abort("killed", SigintExit)
            /\ running' = running
  /\ UNCHANGED <<inplace, modified, restoreRan, restored, handlerSet, status>>
  /\ UNCHANGED <<childVars, readerVars, chan, stopChan, watcherVars>>
  /\ UNCHANGED <<prepVars, sideVars>>

\* ------------------------------------------------------------------------
\* The child process (environment)
\* ------------------------------------------------------------------------

ChildPrint ==
  /\ Alive
  /\ child = "running"
  /\ stdoutOpen
  /\ printed < MaxLines
  /\ \E k \in LineKinds : pipe' = Append(pipe, k)
  /\ printed' = printed + 1
  /\ UNCHANGED <<mainVars, child, stdoutOpen, childStatus>>
  /\ UNCHANGED <<readerVars, chan, stopChan, watcherVars>>
  /\ UNCHANGED <<prepVars, sideVars>>

\* the child closes its stdout and keeps running
ChildCloseStdout ==
  /\ Alive
  /\ child = "running"
  /\ stdoutOpen
  /\ stdoutOpen' = FALSE
  /\ UNCHANGED <<mainVars, child, childStatus, printed, pipe>>
  /\ UNCHANGED <<readerVars, chan, stopChan, watcherVars>>
  /\ UNCHANGED <<prepVars, sideVars>>

\* the child exits with a code, or is killed by a signal
ChildExit ==
  /\ Alive
  /\ child = "running"
  /\ child' = "exited"
  /\ stdoutOpen' = FALSE
  /\ childStatus' \in ChildCodes \cup {Signalled}
  /\ UNCHANGED <<mainVars, printed, pipe>>
  /\ UNCHANGED <<readerVars, chan, stopChan, watcherVars>>
  /\ UNCHANGED <<prepVars, sideVars>>

\* ------------------------------------------------------------------------
\* watch_traces, trace_watcher.rs:7-64 (the copy in main.rs:285-344 is the same)
\* ------------------------------------------------------------------------

PushedInFront(buf, t) == <<t>> \o buf

\* trace_watcher.rs:29 traces.push(trace)
Pushed(buf, t) == Append(buf, t)

SizeTriggerLate(n) == n > batch_size

\* trace_watcher.rs:31 traces.len() >= batch_size
SizeTrigger(n) == n >= batch_size

NotCleared(buf) == buf

\* trace_watcher.rs:23,33 traces.clear()
Cleared(buf) == <<>>

MinNat(a, b) == IF a <= b THEN a ELSE b

ChunksHeadOnly(buf) == <<SubSeq(buf, 1, 1)>>

\* trace_watcher.rs:43-47 the chunks of the stop branch
Chunks(buf) ==
  [i \in 1..((Len(buf) \div batch_size) + 1) |->
     SubSeq(buf, (i - 1) * batch_size + 1, MinNat(i * batch_size, Len(buf)))]

\* process_traces is called: the request with this body is issued
Dispatch(body, rest, then) ==
  /\ pushes' = Append(pushes, body)
  /\ wq' = rest
  /\ after' = then
  /\ wpc' = "push"

\* trace_watcher.rs:20-26 the interval ticks (the first tick is immediate); a
\* tick with an empty buffer changes nothing
WTick ==
  /\ Alive
  /\ wpc = "select"
  /\ traces # <<>>
  /\ Dispatch(traces, <<>>, "clear")
  /\ UNCHANGED <<mainVars, childVars, readerVars, chan, stopChan, traces, answered,
                 pushFailed>>
  /\ UNCHANGED <<prepVars, sideVars>>

\* trace_watcher.rs:27-37 a trace is received; late is
\* `clear_start.elapsed() > Duration::from_secs(3)`
WRecv ==
  /\ Alive
  /\ wpc = "select"
  /\ chan # <<>>
  /\ chan' = Tail(chan)
  /\ traces' = Pushed(traces, Head(chan))
  /\ \E late \in BOOLEAN :
       IF SizeTrigger(Len(traces')) \/ late
         THEN Dispatch(traces', <<>>, "clear")
         ELSE UNCHANGED <<pushes, wq, after, wpc>>
  /\ UNCHANGED <<mainVars, childVars, readerVars, stopChan, answered, pushFailed>>
  /\ UNCHANGED <<prepVars, sideVars>>

WStopNoBreak ==
  /\ Alive
  /\ wpc = "select"
  /\ stopChan
  /\ stopChan' = FALSE
  /\ UNCHANGED <<mainVars, childVars, readerVars, chan, watcherVars>>
  /\ UNCHANGED <<prepVars, sideVars>>

\* trace_watcher.rs:38-59 the stop message is received
WStop ==
  /\ Alive
  /\ wpc = "select"
  /\ stopChan
  /\ stopChan' = FALSE
  /\ IF traces # <<>>
       THEN Dispatch(Head(Chunks(traces)), Tail(Chunks(traces)), "next")
       ELSE /\ wpc' = "ok"
            /\ UNCHANGED <<pushes, wq, after>>
  /\ UNCHANGED <<mainVars, childVars, readerVars, chan, traces, answered, pushFailed>>
  /\ UNCHANGED <<prepVars, sideVars>>

WPushDoneKeepsOn ==
  /\ Alive
  /\ wpc = "push"
  /\ answered' = answered + 1
  /\ \E ok \in BOOLEAN :
       IF ~ok
         THEN /\ wpc' = "select"
              /\ pushFailed' = TRUE
              /\ UNCHANGED <<traces, wq, after, pushes>>
       ELSE IF after = "clear"
         THEN /\ traces' = Cleared(traces)
              /\ wpc' = "select"
              /\ UNCHANGED <<wq, after, pushes, pushFailed>>
       ELSE IF wq # <<>>
         THEN /\ Dispatch(Head(wq), Tail(wq), "next")
              /\ UNCHANGED <<traces, pushFailed>>
       ELSE /\ wpc' = "ok"
            /\ UNCHANGED <<traces, wq, after, pushes, pushFailed>>
  /\ UNCHANGED <<mainVars, childVars, readerVars, chan, stopChan>>
  /\ UNCHANGED <<prepVars, sideVars>>

\* trace_watcher.rs:66-90 process_traces returns: Ok on a 2xx answer, else
\* Err, which `?` returns from watch_traces
WPushDone ==
  /\ Alive
  /\ wpc = "push"
  /\ answered' = answered + 1
  /\ \E ok \in BOOLEAN :
       IF ~ok
         THEN /\ wpc' = "failed"
              /\ pushFailed' = TRUE
              /\ UNCHANGED <<traces, wq, after, pushes>>
       ELSE IF after = "clear"
         THEN /\ traces' = Cleared(traces)
              /\ wpc' = "select"
              /\ UNCHANGED <<wq, after, pushes, pushFailed>>
       ELSE IF wq # <<>>
         THEN /\ Dispatch(Head(wq), Tail(wq), "next")
              /\ UNCHANGED <<traces, pushFailed>>
       ELSE /\ wpc' = "ok"
            /\ UNCHANGED <<traces, wq, after, pushes, pushFailed>>
  /\ UNCHANGED <<mainVars, childVars, readerVars, chan, stopChan>>
  /\ UNCHANGED <<prepVars, sideVars>>

Next ==
  \/ PrepareWorkingDir
  \/ InstrumentInPlace
  \/ SpawnChild
  \/ ReadLine
  \/ SendTrace
  \/ ReadEof
  \/ WaitChild
  \/ SendStop
  \/ JoinWatcher
  \/ Restore
  \/ Exit
  \/ CtrlC
  \/ ChildPrint
  \/ ChildCloseStdout
  \/ ChildExit
  \/ WTick
  \/ WRecv
  \/ WStop
  \/ WPushDone

Spec == Init /\ [][Next]_vars

\* ------------------------------------------------------------------------
\* process_items and restore_backup, processor.rs
\* ------------------------------------------------------------------------

Range(f) == {f[i] : i \in 1..Len(f)}

\* the vectors without repetition over the source paths: files_to_instrument
\* comes out of a HashSet, in any order
Vectors ==
  {v \in UNION {[1..n -> {Src(i) : i \in FileIds}] : n \in 0..NumFiles} :
     \A a, b \in 1..Len(v) : v[a] = v[b] => a = b}

PrepInit ==
  /\ inplace = FALSE
  /\ RunStart
  /\ CollQuiet
  /\ ShipQuiet
  /\ ExtQuiet
  /\ MirQuiet
  /\ is_inplace \in BOOLEAN
  /\ fsize \in [FileIds -> 1..2]
  /\ files \in Vectors
  /\ fsys = [q \in AllPaths |-> IF q[1] = "root" /\ q[2] \in FileIds
                                  THEN Original(q[2]) ELSE Absent]
  /\ fsys0 = fsys
  /\ zipExists = FALSE
  /\ zip = <<>>
  /\ ppc = "idle"
  /\ bi = 0
  /\ resp = <<>>
  /\ fi = 0
  /\ rpcs = <<>>
  /\ failedFiles = {}
  /\ wrote = {}

\* x put behind every element of the sorted vector v that is not larger
RECURSIVE InsertBySize(_, _, _)
InsertBySize(x, v, size) ==
  IF v = <<>> THEN <<x>>
  ELSE IF size[v[Len(v)][2]] <= size[x[2]] THEN Append(v, x)
  ELSE Append(InsertBySize(x, SubSeq(v, 1, Len(v) - 1), size), v[Len(v)])

\* processor.rs:28-35 files.sort_by(size): a stable sort, ascending
RECURSIVE SortBySize(_, _)
SortBySize(v, size) ==
  IF v = <<>> THEN <<>>
  ELSE InsertBySize(v[Len(v)], SortBySize(SubSeq(v, 1, Len(v) - 1), size), size)

BatchOneMore(v, b) == SubSeq(v, b + 1, MinNat(b + chunk_len + 1, Len(v)))

\* processor.rs:37 the batch that starts at offset b: files.chunks(chunk_len)
Batch(v, b) == SubSeq(v, b + 1, MinNat(b + chunk_len, Len(v)))

\* instrumentation.rs:40-43 files_paths_str
PathStrings(batch) == [i \in 1..Len(batch) |-> to_string_lossy(batch[i])]

\* what the service may answer to a request of n files: a vector of slots,
\* shorter than, as long as, or longer than the request
Responses(n) ==
  UNION {[1..m -> {"none", "some"}] : m \in 0..n}
    \cup {Append(r, "some") : r \in [1..n -> {"none", "some"}]}

\* processor.rs:74-78 the zip of the four iterators stops at the shortest
Slots(batch, r) == MinNat(Len(batch), Len(r))

ContentForFirstSlot(batch, r, k, original_content) ==
  IF r[1] = "some" THEN Instrumented(PathStrings(batch)[k]) ELSE original_content

\* processor.rs:80-85 the content to write for slot k of the batch
ContentFor(batch, r, k, original_content) ==
  IF r[k] = "some" THEN Instrumented(PathStrings(batch)[k]) ELSE original_content

\* processor.rs:109-150 process_items up to the first batch
ProcessItems ==
  /\ ppc = "idle"
  /\ files' = SortBySize(files, fsize)
  /\ bi' = 0
  /\ IF is_inplace
       THEN \E created \in BOOLEAN :
              IF created
                THEN zipExists' = TRUE /\ zip' = <<>> /\ ppc' = "batch"
                ELSE ppc' = "prep_err" /\ UNCHANGED <<zipExists, zip>>
       ELSE ppc' = "batch" /\ UNCHANGED <<zipExists, zip>>
  /\ UNCHANGED <<is_inplace, fsize, fsys, fsys0, resp, fi, rpcs, failedFiles, wrote>>
  /\ UNCHANGED <<runVars, sideVars>>

\* the loop over the slots of a batch goes on, or the next batch starts
AfterSlot(done, total) ==
  IF done < total
    THEN ppc' = "apply" /\ bi' = bi
    ELSE ppc' = "batch" /\ bi' = bi + chunk_len

\* processor.rs:37-72 one batch: the request and its result
InstrumentBatch ==
  /\ ppc = "batch"
  /\ bi < Len(files)
  /\ LET batch == Batch(files, bi)
     IN /\ rpcs' = Append(rpcs, PathStrings(batch))
        /\ \/ /\ failedFiles' = failedFiles \cup Range(batch)
              /\ ppc' = "batch"
              /\ bi' = bi + chunk_len
              /\ resp' = <<>>
           \/ /\ resp' \in Responses(Len(batch))
              /\ AfterSlot(0, Slots(batch, resp'))
              /\ failedFiles' = failedFiles
  /\ fi' = 0
  /\ UNCHANGED <<is_inplace, fsize, files, fsys, fsys0, zipExists, zip, wrote>>
  /\ UNCHANGED <<runVars, sideVars>>

\* processor.rs:74-104 one slot: in place, the original goes to the archive
\* (the source is overwritten next); else the content goes to the destination
ApplySlot ==
  /\ ppc = "apply"
  /\ LET batch == Batch(files, bi)
         src_path == batch[fi + 1]
         original_content == fsys[src_path]
     IN IF is_inplace
          THEN /\ zip' = Append(zip, [name |-> to_string_lossy(src_path),
                                      content |-> original_content])
               /\ ppc' = "archived"
               /\ UNCHANGED <<fsys, wrote, fi, bi>>
          ELSE /\ fsys' = [fsys EXCEPT ![compute_dest_path(src_path)] =
                             ContentFor(batch, resp, fi + 1, original_content)]
               /\ wrote' = wrote \cup {compute_dest_path(src_path)}
               /\ fi' = fi + 1
               /\ AfterSlot(fi + 1, Slots(batch, resp))
               /\ zip' = zip
  /\ UNCHANGED <<is_inplace, fsize, files, fsys0, zipExists, resp, rpcs, failedFiles>>
  /\ UNCHANGED <<runVars, sideVars>>

\* processor.rs:93 fs::write(src_path, instrumented_content)
OverwriteSource ==
  /\ ppc = "archived"
  /\ LET batch == Batch(files, bi)
         src_path == batch[fi + 1]
     IN /\ fsys' = [fsys EXCEPT ![src_path] =
                      ContentFor(batch, resp, fi + 1, fsys[src_path])]
        /\ wrote' = wrote \cup {src_path}
        /\ fi' = fi + 1
        /\ AfterSlot(fi + 1, Slots(batch, resp))
  /\ UNCHANGED <<is_inplace, fsize, files, fsys0, zipExists, zip, resp, rpcs,
                 failedFiles>>
  /\ UNCHANGED <<runVars, sideVars>>

\* processor.rs:106, 215-217 no batch is left: process_items returns Ok(())
FinishItems ==
  /\ ppc = "batch"
  /\ bi >= Len(files)
  /\ ppc' = "prepared"
  /\ UNCHANGED <<is_inplace, fsize, files, fsys, fsys0, zipExists, zip, bi, resp, fi,
                 rpcs, failedFiles, wrote>>
  /\ UNCHANGED <<runVars, sideVars>>

RestoreBackupUnchecked ==
  /\ ppc \in {"idle", "prepared"}
  /\ fi' = 0
  /\ ppc' = IF zip = <<>> THEN "restored" ELSE "restoring"
  /\ UNCHANGED <<is_inplace, fsize, files, fsys, fsys0, zipExists, zip, bi, resp,
                 rpcs, failedFiles, wrote>>
  /\ UNCHANGED <<runVars, sideVars>>

\* processor.rs:220-236 restore_backup: Err("Backup not found..") without
\* an archive, else the loop over its entries starts
RestoreBackup ==
  /\ ppc \in {"idle", "prepared"}
  /\ fi' = 0
  /\ ppc' = IF ~zipExists THEN "restore_err"
            ELSE IF zip = <<>> THEN "restored" ELSE "restoring"
  /\ UNCHANGED <<is_inplace, fsize, files, fsys, fsys0, zipExists, zip, bi, resp,
                 rpcs, failedFiles, wrote>>
  /\ UNCHANGED <<runVars, sideVars>>

\* processor.rs:238-258 one entry is written at the path that is its name
RestoreEntry ==
  /\ ppc = "restoring"
  /\ fsys' = [fsys EXCEPT ![zip[fi + 1].name] = zip[fi + 1].content]
  /\ fi' = fi + 1
  /\ ppc' = IF fi + 1 < Len(zip) THEN "restoring" ELSE "restored"
  /\ UNCHANGED <<is_inplace, fsize, files, fsys0, zipExists, zip, bi, resp, rpcs,
                 failedFiles, wrote>>
  /\ UNCHANGED <<runVars, sideVars>>

PrepNext ==
  \/ ProcessItems
  \/ InstrumentBatch
  \/ ApplySlot
  \/ OverwriteSource
  \/ FinishItems
  \/ RestoreBackup
  \/ RestoreEntry

PrepSpec == PrepInit /\ [][PrepNext]_vars

\* ------------------------------------------------------------------------
\* collect_items, collector.rs:14-125, with the classifiers of utils.rs
\* ------------------------------------------------------------------------

\* utils.rs:10-19 should_copy_or_link_directory
should_copy_or_link_directory(dir_name) ==
  dir_name \notin {<<".", "git">>, <<".", "ariana">>, <<".", "ariana_saved_traces">>,
                   <<".", "traces">>, <<".", "ariana-saved-traces">>}

\* utils.rs:21-38 should_explore_directory
should_explore_directory(dir_name) ==
  /\ dir_name \notin {<<"node_modules">>, <<".", "git">>, <<".", "ariana">>,
                      <<"dist">>, <<"build">>, <<"target">>,
                      <<".", "ariana_saved_traces">>, <<".", "traces">>, <<"venv">>,
                      <<"site-packages">>, <<"_", "_", "pycache", "_", "_">>,
                      <<".", "ariana-saved-traces">>}
  /\ ~ \E i \in 1..Len(dir_name) : dir_name[i] = "."
  /\ ~ (Len(dir_name) > 0 /\ dir_name[1] = "_")

\* str::to_lowercase on the pieces the entries use
to_lowercase(piece) == IF piece = "JS" THEN "js" ELSE piece

\* Path::extension: the piece after the last "." of the name, "" for None (no
\* ".", or only a leading one)
extension(name) ==
  LET dots == {i \in 2..Len(name) : name[i] = "."}
  IN IF dots = {} \/ Len(name) = 0 THEN ""
     ELSE LET last == CHOOSE i \in dots : \A j \in dots : j <= i
          IN IF last = Len(name) THEN "" ELSE name[last + 1]

\* str::ends_with
ends_with(name, suffix) ==
  /\ Len(name) >= Len(suffix)
  /\ SubSeq(name, Len(name) - Len(suffix) + 1, Len(name)) = suffix

\* collector.rs:102-125 should_instrument_file
should_instrument_file(entry) ==
  IF entry.len >= MaxInstrumentLen THEN FALSE
  ELSE IF extension(entry.name) = "" THEN FALSE
  ELSE IF to_lowercase(extension(entry.name)) \notin {"js", "ts", "tsx", "jsx", "py"}
         THEN FALSE
  ELSE IF \/ ends_with(entry.name, <<".", "config", ".", "js">>)
          \/ ends_with(entry.name, <<".", "config", ".", "ts">>)
         THEN FALSE
  ELSE TRUE

\* the paths matched by the patterns of the ignore files of directory d
IgnoreFile(d) ==
  IF d = 0 THEN {rootIgnore} \ {0}
  ELSE IF d = 1 /\ subIgnore /\ tree[1].type = "dir" THEN {2} \cap Nodes
  ELSE {}

\* fs::read_dir: the entries of directory d, in any order
ReadDir(d) ==
  LET present == {n \in Children(d) : tree[n].type # "none"}
  IN {v \in [1..Cardinality(present) -> present] :
        \A a, b \in 1..Len(v) : v[a] = v[b] => a = b}

RecordOnlyParent(tmp, recorded) == recorded \cup {Parent(tmp)}

\* collector.rs:47-54 the ancestors of tmp are recorded up to the first one
\* that is recorded already
RECURSIVE RecordParents(_, _)
RecordParents(tmp, recorded) ==
  IF tmp = Outside THEN recorded
  ELSE IF Parent(tmp) \in recorded THEN recorded
  ELSE RecordParents(Parent(tmp), recorded \cup {Parent(tmp)})

ClassifyFileElseMissing(path, entry) ==
  IF should_instrument_file(entry)
    THEN /\ files_to_instrument' = files_to_instrument \cup {path}
         /\ UNCHANGED files_to_link_or_copy
    ELSE UNCHANGED <<files_to_instrument, files_to_link_or_copy>>

\* collector.rs:55-59 the file goes to one of the two sets of files
ClassifyFile(path, entry) ==
  IF should_instrument_file(entry)
    THEN /\ files_to_instrument' = files_to_instrument \cup {path}
         /\ UNCHANGED files_to_link_or_copy
    ELSE /\ files_to_link_or_copy' = files_to_link_or_copy \cup {path}
         /\ UNCHANGED files_to_instrument

CollInit ==
  /\ inplace = FALSE
  /\ RunStart
  /\ PrepQuiet
  /\ ShipQuiet
  /\ ExtQuiet
  /\ MirQuiet
  /\ tree \in Trees
  /\ rootIgnore \in 0..NumNodes
  /\ subIgnore \in BOOLEAN
  /\ cpc = "idle"
  /\ entries = <<>>
  /\ ignore_builder = {}
  /\ directories_to_link_or_copy = {}
  /\ parents_of_files = {}
  /\ files_to_instrument = {}
  /\ files_to_link_or_copy = {}
  /\ walked = {}

\* collector.rs:14-26 the sets are empty, the root's ignore files are added
\* and project_root is read (`?` returns the error of read_dir)
CollectStart ==
  /\ cpc = "idle"
  /\ ignore_builder' = IgnoreFile(0)
  /\ \/ /\ entries' \in ReadDir(0)
        /\ cpc' = "walk"
     \/ /\ entries' = <<>>
        /\ cpc' = "coll_err"
  /\ UNCHANGED <<tree, rootIgnore, subIgnore, directories_to_link_or_copy,
                 parents_of_files, files_to_instrument, files_to_link_or_copy, walked>>
  /\ UNCHANGED <<runVars, prepVars, shipVars, extVars, mirVars>>

\* collector.rs:27-61 one turn of the loop: the last entry is popped
WalkEntry ==
  /\ cpc = "walk"
  /\ entries # <<>>
  /\ LET path == entries[Len(entries)]
         rest == SubSeq(entries, 1, Len(entries) - 1)
         ignore == ignore_builder \cup IgnoreFile(path)
         entry == tree[path]
     IN /\ ignore_builder' = ignore
        /\ walked' = walked \cup {path}
        /\ IF entry.type = "dir"
             THEN /\ IF path \notin ignore /\ should_explore_directory(entry.name)
                       THEN \/ /\ \E more \in ReadDir(path) : entries' = rest \o more
                               /\ cpc' = "walk"
                               /\ directories_to_link_or_copy' =
                                    IF should_copy_or_link_directory(entry.name)
                                      THEN directories_to_link_or_copy \cup {path}
                                      ELSE directories_to_link_or_copy
                            \/ /\ entries' = rest
                               /\ cpc' = "coll_err"
                               /\ UNCHANGED directories_to_link_or_copy
                       ELSE /\ entries' = rest
                            /\ cpc' = "walk"
                            /\ directories_to_link_or_copy' =
                                 IF should_copy_or_link_directory(entry.name)
                                   THEN directories_to_link_or_copy \cup {path}
                                   ELSE directories_to_link_or_copy
                  /\ UNCHANGED <<parents_of_files, files_to_instrument,
                                 files_to_link_or_copy>>
           ELSE IF entry.type = "file"
             THEN /\ parents_of_files' = RecordParents(path, parents_of_files)
                  /\ ClassifyFile(path, entry)
                  /\ entries' = rest
                  /\ cpc' = "walk"
                  /\ UNCHANGED directories_to_link_or_copy
           ELSE /\ entries' = rest
                /\ cpc' = "walk"
                /\ UNCHANGED <<directories_to_link_or_copy, parents_of_files,
                               files_to_instrument, files_to_link_or_copy>>
  /\ UNCHANGED <<tree, rootIgnore, subIgnore>>
  /\ UNCHANGED <<runVars, prepVars, shipVars, extVars, mirVars>>

\* collector.rs:63-99 `entries` is empty: the two differences are taken and
\* CollectedItems is returned
CollectFinish ==
  /\ cpc = "walk"
  /\ entries = <<>>
  /\ directories_to_link_or_copy' = directories_to_link_or_copy \ parents_of_files
  /\ files_to_link_or_copy' = files_to_link_or_copy \ files_to_instrument
  /\ cpc' = "collected"
  /\ UNCHANGED <<tree, rootIgnore, subIgnore, entries, ignore_builder,
                 parents_of_files, files_to_instrument, walked>>
  /\ UNCHANGED <<runVars, prepVars, shipVars, extVars, mirVars>>

CollNext ==
  \/ CollectStart
  \/ WalkEntry
  \/ CollectFinish

CollSpec == CollInit /\ [][CollNext]_vars

\* ------------------------------------------------------------------------
\* watch_subprocess_output, subprocess_stdout_watcher.rs:22-127
\* ------------------------------------------------------------------------

OutputSource == {"Stdout", "Stderr"}

\* one entry of `wire`: a send of a line, a reconnect or the close, on a socket
Event(ev, line, sock, ok) == [ev |-> ev, line |-> line, sock |-> sock, ok |-> ok]

ShipInit ==
  /\ inplace = FALSE
  /\ RunStart
  /\ PrepQuiet
  /\ CollQuiet
  /\ ExtQuiet
  /\ MirQuiet
  /\ output_rx = <<>>
  /\ outClosed = FALSE
  /\ produced = 0
  /\ stop_rx = 0
  /\ task_stop_rx = 0
  /\ internal_rx = <<>>
  /\ fpc = "none"
  /\ held = NoLine
  /\ spc = "connect"
  /\ shutting_down = FALSE
  /\ ws_stream = 0
  /\ payload = NoLine
  /\ wire = <<>>
  /\ early = {}

\* the caller places a line on the input channel (a send to a dropped
\* receiver places nothing)
Produce ==
  /\ ~outClosed
  /\ produced < MaxOut
  /\ Len(output_rx) < OutChanCap
  /\ fpc # "done"
  /\ \E source \in OutputSource :
        output_rx' = Append(output_rx, [n |-> produced + 1, source |-> source])
  /\ produced' = produced + 1
  /\ UNCHANGED <<outClosed, stop_rx, task_stop_rx, internal_rx, fpc, held, spc,
                 shutting_down, ws_stream, payload, wire>>
  /\ UNCHANGED <<early, runVars, prepVars, collVars, extVars, mirVars>>

\* the caller drops the sender of the input channel
CloseInput ==
  /\ ~outClosed
  /\ outClosed' = TRUE
  /\ UNCHANGED <<output_rx, produced, stop_rx, task_stop_rx, internal_rx, fpc, held,
                 spc, shutting_down, ws_stream, payload, wire>>
  /\ UNCHANGED <<early, runVars, prepVars, collVars, extVars, mirVars>>

\* the caller sends the stop signal; `early` records the lines placed on the
\* input channel before it
CallerStop ==
  /\ stop_rx = 0
  /\ ~shutting_down
  /\ spc \notin {"closed", "ship_err"}
  /\ stop_rx' = 1
  /\ early' = 1..produced
  /\ UNCHANGED <<output_rx, outClosed, produced, task_stop_rx, internal_rx, fpc, held,
                 spc, shutting_down, ws_stream, payload, wire>>
  /\ UNCHANGED <<runVars, prepVars, collVars, extVars, mirVars>>

\* subprocess_stdout_watcher.rs:28-64 the first connection (`?` returns its
\* error), the two internal channels and the forwarder task
Connect ==
  /\ spc = "connect"
  /\ \/ spc' = "select" /\ fpc' = "select"
     \/ spc' = "ship_err" /\ fpc' = fpc
  /\ UNCHANGED <<output_rx, outClosed, produced, stop_rx, task_stop_rx, internal_rx,
                 held, shutting_down, ws_stream, payload, wire>>
  /\ UNCHANGED <<early, runVars, prepVars, collVars, extVars, mirVars>>

\* the function has returned: task_stop_tx and internal_rx are dropped
Returned == spc = "closed"

FwdStopNoBreak ==
  /\ fpc = "select"
  /\ task_stop_rx > 0
  /\ task_stop_rx' = 0
  /\ UNCHANGED <<output_rx, outClosed, produced, stop_rx, internal_rx, fpc, held, spc,
                 shutting_down, ws_stream, payload, wire>>
  /\ UNCHANGED <<early, runVars, prepVars, collVars, extVars, mirVars>>

\* subprocess_stdout_watcher.rs:44-47 the forwarder's stop branch, polled
\* first: a stop signal, or None once task_stop_tx is dropped
FwdStop ==
  /\ fpc = "select"
  /\ task_stop_rx > 0 \/ Returned
  /\ task_stop_rx' = 0
  /\ fpc' = "done"
  /\ UNCHANGED <<output_rx, outClosed, produced, stop_rx, internal_rx, held, spc,
                 shutting_down, ws_stream, payload, wire>>
  /\ UNCHANGED <<early, runVars, prepVars, collVars, extVars, mirVars>>

\* subprocess_stdout_watcher.rs:48-51 a line is received from the input channel
FwdRecv ==
  /\ fpc = "select"
  /\ ~ (task_stop_rx > 0 \/ Returned)
  /\ output_rx # <<>>
  /\ held' = Head(output_rx)
  /\ output_rx' = Tail(output_rx)
  /\ fpc' = "sending"
  /\ UNCHANGED <<outClosed, produced, stop_rx, task_stop_rx, internal_rx, spc,
                 shutting_down, ws_stream, payload, wire>>
  /\ UNCHANGED <<early, runVars, prepVars, collVars, extVars, mirVars>>

EnqueuedInFront(queue, line) == <<line>> \o queue

\* subprocess_stdout_watcher.rs:51 internal_tx.send(output)
Enqueued(queue, line) == Append(queue, line)

\* subprocess_stdout_watcher.rs:51-55 the line enters the internal queue when
\* there is room; Err once internal_rx is dropped
FwdSend ==
  /\ fpc = "sending"
  /\ IF Returned
       THEN /\ fpc' = "done"
            /\ UNCHANGED internal_rx
       ELSE /\ Len(internal_rx) < InternalCap
            /\ internal_rx' = Enqueued(internal_rx, held)
            /\ fpc' = "select"
  /\ held' = NoLine
  /\ UNCHANGED <<output_rx, outClosed, produced, stop_rx, task_stop_rx, spc,
                 shutting_down, ws_stream, payload, wire>>
  /\ UNCHANGED <<early, runVars, prepVars, collVars, extVars, mirVars>>

\* subprocess_stdout_watcher.rs:56-59 the input channel is closed and empty
FwdInputClosed ==
  /\ fpc = "select"
  /\ ~ (task_stop_rx > 0 \/ Returned)
  /\ output_rx = <<>>
  /\ outClosed
  /\ fpc' = "done"
  /\ UNCHANGED <<output_rx, outClosed, produced, stop_rx, task_stop_rx, internal_rx,
                 held, spc, shutting_down, ws_stream, payload, wire>>
  /\ UNCHANGED <<early, runVars, prepVars, collVars, extVars, mirVars>>

\* subprocess_stdout_watcher.rs:71 the stop branch of the main loop is ready
StopReady == ~shutting_down /\ stop_rx > 0

\* subprocess_stdout_watcher.rs:71-77 the stop branch, polled first: the
\* forwarder is told to stop (Err, ignored, when it has ended)
MainStop ==
  /\ spc = "select"
  /\ StopReady
  /\ stop_rx' = 0
  /\ shutting_down' = TRUE
  /\ task_stop_rx' = IF fpc = "done" THEN task_stop_rx ELSE 1
  /\ UNCHANGED <<output_rx, outClosed, produced, internal_rx, fpc, held, spc,
                 ws_stream, payload, wire>>
  /\ UNCHANGED <<early, runVars, prepVars, collVars, extVars, mirVars>>

\* subprocess_stdout_watcher.rs:78-92 a line is received from the internal
\* queue and its first send starts
MainRecv ==
  /\ spc = "select"
  /\ ~StopReady
  /\ internal_rx # <<>>
  /\ payload' = Head(internal_rx)
  /\ internal_rx' = Tail(internal_rx)
  /\ spc' = "sending"
  /\ UNCHANGED <<output_rx, outClosed, produced, stop_rx, task_stop_rx, fpc, held,
                 shutting_down, ws_stream, wire>>
  /\ UNCHANGED <<early, runVars, prepVars, collVars, extVars, mirVars>>

RecvNoneWhenEmpty == internal_rx = <<>>

\* subprocess_stdout_watcher.rs:111-116 internal_rx.recv() is None: the queue
\* is empty and internal_tx has been dropped with the forwarder task
RecvNone == internal_rx = <<>> /\ fpc = "done"

MainRecvNone ==
  /\ spc = "select"
  /\ ~StopReady
  /\ RecvNone
  /\ spc' = "closing"
  /\ UNCHANGED <<output_rx, outClosed, produced, stop_rx, task_stop_rx, internal_rx,
                 fpc, held, shutting_down, ws_stream, payload, wire>>
  /\ UNCHANGED <<early, runVars, prepVars, collVars, extVars, mirVars>>

\* subprocess_stdout_watcher.rs:92 ws_stream.send(..): Ok, or Err and the
\* reconnect starts
WsSend ==
  /\ spc = "sending"
  /\ \E ok \in BOOLEAN :
        /\ wire' = Append(wire, Event("send", payload, ws_stream, ok))
        /\ spc' = IF ok THEN "select" ELSE "reconnecting"
        /\ payload' = IF ok THEN NoLine ELSE payload
  /\ UNCHANGED <<output_rx, outClosed, produced, stop_rx, task_stop_rx, internal_rx,
                 fpc, held, shutting_down, ws_stream>>
  /\ UNCHANGED <<early, runVars, prepVars, collVars, extVars, mirVars>>

KeepGoing(ok) == IF ok THEN "resending" ELSE "select"

\* subprocess_stdout_watcher.rs:94-106 where the main loop goes after
\* connect_async: the resend, or break 'main_loop
AfterReconnect(ok) == IF ok THEN "resending" ELSE "closing"

\* subprocess_stdout_watcher.rs:94-106 connect_async(&url)
Reconnect ==
  /\ spc = "reconnecting"
  /\ \E ok \in BOOLEAN :
        /\ ws_stream' = IF ok THEN ws_stream + 1 ELSE ws_stream
        /\ wire' = Append(wire, Event("connect", payload, ws_stream', ok))
        /\ spc' = AfterReconnect(ok)
        /\ payload' = IF ok THEN payload ELSE NoLine
  /\ UNCHANGED <<output_rx, outClosed, produced, stop_rx, task_stop_rx, internal_rx,
                 fpc, held, shutting_down>>
  /\ UNCHANGED <<early, runVars, prepVars, collVars, extVars, mirVars>>

\* subprocess_stdout_watcher.rs:98-100 the same json is sent on the new
\* socket; an Err is ignored
Resend ==
  /\ spc = "resending"
  /\ \E ok \in BOOLEAN :
        wire' = Append(wire, Event("send", payload, ws_stream, ok))
  /\ spc' = "select"
  /\ payload' = NoLine
  /\ UNCHANGED <<output_rx, outClosed, produced, stop_rx, task_stop_rx, internal_rx,
                 fpc, held, shutting_down, ws_stream>>
  /\ UNCHANGED <<early, runVars, prepVars, collVars, extVars, mirVars>>

CloseSocketKeepsOn ==
  /\ spc = "closing"
  /\ wire' = Append(wire, Event("close", NoLine, ws_stream, TRUE))
  /\ spc' = "select"
  /\ UNCHANGED <<output_rx, outClosed, produced, stop_rx, task_stop_rx, internal_rx,
                 fpc, held, shutting_down, ws_stream, payload>>
  /\ UNCHANGED <<early, runVars, prepVars, collVars, extVars, mirVars>>

\* subprocess_stdout_watcher.rs:122-126 ws_stream.close(None), then Ok(())
CloseSocket ==
  /\ spc = "closing"
  /\ wire' = Append(wire, Event("close", NoLine, ws_stream, TRUE))
  /\ spc' = "closed"
  /\ UNCHANGED <<output_rx, outClosed, produced, stop_rx, task_stop_rx, internal_rx,
                 fpc, held, shutting_down, ws_stream, payload>>
  /\ UNCHANGED <<early, runVars, prepVars, collVars, extVars, mirVars>>

ShipNext ==
  \/ Produce
  \/ CloseInput
  \/ CallerStop
  \/ Connect
  \/ FwdStop
  \/ FwdRecv
  \/ FwdSend
  \/ FwdInputClosed
  \/ MainStop
  \/ MainRecv
  \/ MainRecvNone
  \/ WsSend
  \/ Reconnect
  \/ Resend
  \/ CloseSocket

ShipSpec == ShipInit /\ [][ShipNext]_vars

\* The steps of run_main (one sequential task)
MainStep ==
  \/ PrepareWorkingDir
  \/ InstrumentInPlace
  \/ SpawnChild
  \/ ReadLine
  \/ SendTrace
  \/ ReadEof
  \/ WaitChild
  \/ SendStop
  \/ JoinWatcher
  \/ Restore
  \/ Exit

\* The steps of the watch_traces task
WatcherStep == WTick \/ WRecv \/ WStop \/ WPushDone

\* ------------------------------------------------------------------------
\* Properties of a run
\* ------------------------------------------------------------------------

RECURSIVE Flatten(_)
Flatten(ss) == IF ss = <<>> THEN <<>> ELSE Head(ss) \o Flatten(Tail(ss))

InBody(n, body) == \E a \in 1..Len(body) : body[a] = n

IsPushed(n) == \E i \in 1..Len(pushes) : InBody(n, pushes[i])

\* C1: when the trace shipper has finished through its stop branch and no
\* push has failed, every record sent on the trace channel is in the body of
\* some push request.
C1_DeliveredAfterStop ==
  (wpc = "ok" /\ ~pushFailed) => \A n \in 1..nsent : IsPushed(n)

\* C2: no trace record is in the body of two push requests, nor twice in one.
C2_NoDuplicate ==
  \A i, j \in 1..Len(pushes) :
    \A a \in 1..Len(pushes[i]), b \in 1..Len(pushes[j]) :
      pushes[i][a] = pushes[j][b] => (i = j /\ a = b)

\* the timer or size trigger and the drain on stop have each issued a push
C2_Witness ==
  /\ wpc = "ok"
  /\ Len(pushes) >= 3
  /\ nsent >= 4

\* C3: the bodies of the push requests, concatenated in order of dispatch,
\* list the records in the order they were extracted (record n is the n-th
\* sent on the trace channel), and at most one push request is in flight.
C3_Order ==
  /\ \A i \in 1..Len(Flatten(pushes)) : Flatten(pushes)[i] = i
  /\ Len(pushes) - answered \in {0, 1}
  /\ (wpc = "push") = (Len(pushes) - answered = 1)

\* two batches, one of them holding two records, have been dispatched
C3_Witness ==
  /\ Len(pushes) >= 2
  /\ \E i \in 1..Len(pushes) : Len(pushes[i]) >= 2
  /\ answered = Len(pushes)
  /\ wpc = "ok"

\* C4: no push request carries more than batch_size records.
C4_PushBound == \A i \in 1..Len(pushes) : Len(pushes[i]) <= batch_size

\* the size trigger has issued a full batch
C4_Witness ==
  /\ \E i \in 1..Len(pushes) : Len(pushes[i]) = batch_size
  /\ nsent > batch_size

\* a failure of the run that is not the doing of the trace shipper
UnrelatedFailure == mpc \in {"err_wait", "err_restore", "panic", "killed"}

\* C5: when a push has failed and the harness has ended (for no unrelated
\* reason), it has consumed the child's stdout, waited for the child, run
\* restore in in-place mode and exited with the child's status.
C5_ShipperFailureIsolated ==
  (pushFailed /\ ~Alive /\ ~UnrelatedFailure) =>
     /\ mpc = "done"
     /\ pipe = <<>>
     /\ status = childStatus
     /\ (inplace => restored)
     /\ exitCode = ExitCodeOf(childStatus)

\* C6: once in-place instrumentation has modified original files the harness
\* does not end without having run the restore step, and the restore step
\* runs only after the trace shipper task has finished.
C6_RestoreOnEveryPath ==
  /\ (mpc \in {"done", "err_spawn", "err_send", "err_wait"} /\ inplace /\ modified)
       => restoreRan
  /\ restoreRan => wpc \in {"ok", "failed"}

\* C8: at the end of the supervisor the exit code is the child's exit code,
\* and 1 when the child was killed by a signal or Ctrl-C was received.
C8_ExitCode ==
  mpc = "done" =>
    exitCode = (IF ~running \/ status = Signalled THEN 1 ELSE status)

\* C9: once Ctrl-C has arrived the harness goes on to the drain path and to
\* its exit without depending on the child: from the interrupt until it has
\* exited, one of its own tasks always has a step to take (it never waits for
\* the child to print, to close its stdout or to end).
C9_InterruptNeverWaitsForChild ==
  (~running /\ Alive) => ENABLED (MainStep \/ WatcherStep)

\* ------------------------------------------------------------------------
\* Properties of a preparation and a restore
\* ------------------------------------------------------------------------

\* C7: after an in-place preparation followed by restore_backup, every file
\* of files-to-instrument has the content it had before the preparation.
C7_BackupRoundTrip ==
  (ppc = "restored" /\ is_inplace) =>
     \A k \in 1..Len(files) : fsys[files[k]] = fsys0[files[k]]

\* C10: when process_items has returned, every file of a batch whose request
\* failed is at its destination in its original form: the source keeps its
\* content in place, the destination holds that content in the mirror.
C10_FailedBatchKeptOriginal ==
  ppc = "prepared" =>
     \A q \in failedFiles :
        IF is_inplace THEN fsys[q] = fsys0[q]
                      ELSE fsys[compute_dest_path(q)] = fsys0[q]

\* where the content of a file of files-to-instrument is written
Target(src_path) == IF is_inplace THEN src_path ELSE compute_dest_path(src_path)

\* the batch whose slots are being applied, or were applied last
AppliedBatch ==
  Batch(files, IF ppc \in {"apply", "archived"} THEN bi ELSE bi - chunk_len)

\* C11: in a batch whose request succeeded, the content written for the file
\* at position k of the request is the file's original content when slot k of
\* the response is None, and the string of slot k (the instrumentation of the
\* k-th name of the request) when it holds one; no file ever receives the
\* content of another file.
C11_NoneSlotFallback ==
  /\ (ppc \in {"apply", "archived", "batch", "prepared"} /\ fi > 0) =>
        \A k \in 1..fi :
           fsys[Target(AppliedBatch[k])] =
              IF resp[k] = "some" THEN Instrumented(rpcs[Len(rpcs)][k])
                                  ELSE fsys0[AppliedBatch[k]]
  /\ ppc \in {"apply", "archived", "batch", "prepared"} =>
        \A k \in 1..Len(files) :
           Target(files[k]) \in wrote =>
              fsys[Target(files[k])] \in
                 {fsys0[files[k]], Instrumented(to_string_lossy(files[k]))}

\* a batch of two files answered <<None, Some(..)>> has been applied
C11_Witness ==
  /\ ppc = "batch"
  /\ fi = 2
  /\ resp = <<"none", "some">>
  /\ fsys[Target(AppliedBatch[1])] = fsys0[AppliedBatch[1]]
  /\ fsys[Target(AppliedBatch[2])] = Instrumented(rpcs[Len(rpcs)][2])

\* the positions <<request, index>> at which a file name was sent
SentAt(name) ==
  {<<i, j>> \in (1..Len(rpcs)) \X (1..chunk_len) :
      j <= Len(rpcs[i]) /\ rpcs[i][j] = name}

RECURSIVE Ancestors(_)
Ancestors(n) == IF n = Outside THEN {} ELSE {Parent(n)} \cup Ancestors(Parent(n))

WalkedFiles == {n \in walked : tree[n].type = "file"}

\* C13: in the result of collect_items the three sets are pairwise disjoint,
\* and every regular file the walk reached is in exactly one of
\* files-to-instrument and files-to-link-or-copy.
C13_Partition ==
  cpc = "collected" =>
     /\ directories_to_link_or_copy \cap files_to_instrument = {}
     /\ directories_to_link_or_copy \cap files_to_link_or_copy = {}
     /\ files_to_instrument \cap files_to_link_or_copy = {}
     /\ \A n \in WalkedFiles :
           (n \in files_to_instrument) # (n \in files_to_link_or_copy)
     /\ files_to_instrument \cup files_to_link_or_copy \subseteq WalkedFiles

\* a walk whose result has a directory, a file to instrument and a file to
\* link or copy
C13_Witness ==
  /\ cpc = "collected"
  /\ directories_to_link_or_copy # {}
  /\ files_to_instrument # {}
  /\ files_to_link_or_copy # {}

\* C14: in the result of collect_items no walked file, and so no file of
\* files-to-instrument, is below a directory of dirs-to-link-or-copy; during
\* the walk every ancestor of a recorded parent is recorded as well.
C14_Subsumption ==
  /\ cpc = "collected" =>
        \A f \in WalkedFiles : Ancestors(f) \cap directories_to_link_or_copy = {}
  /\ \A n \in parents_of_files : n # Outside => Parent(n) \in parents_of_files
  /\ \A f \in WalkedFiles : Ancestors(f) \subseteq parents_of_files

\* a file to instrument two directories below project_root, found after
\* another file had recorded project_root, next to a directory that is linked
C14_Witness ==
  /\ cpc = "collected"
  /\ \E f \in files_to_instrument : Parent(Parent(f)) \in Nodes
  /\ Cardinality(WalkedFiles) >= 2
  /\ directories_to_link_or_copy # {}

\* the paths the composed ignore matcher matches when the walk is over
Ignored == ignore_builder

\* C15: a file matched by the composed ignore matcher is not in
\* files-to-instrument.
C15_IgnoredNotInstrumented ==
  cpc = "collected" => files_to_instrument \cap Ignored = {}

\* ------------------------------------------------------------------------
\* Properties of the output shipper
\* ------------------------------------------------------------------------

\* entry i of `wire` is a send that follows a successful reconnect
IsResend(i) == i > 1 /\ wire[i].ev = "send" /\ wire[i - 1].ev = "connect"

\* entry i of `wire` is the first send of its line, and it failed
FailedFirstSend(i) == wire[i].ev = "send" /\ ~wire[i].ok /\ ~IsResend(i)

ReconnectFailed == \E j \in 1..Len(wire) : wire[j].ev = "connect" /\ ~wire[j].ok

\* C16: a failed send of a line is answered by one reconnect attempt, made
\* for that line only; after a successful reconnect the next thing sent is the
\* same line, on the new socket; after a failed reconnect nothing is sent any
\* more, the main loop is left and the lines still queued are never sent.
C16_Reconnect ==
  /\ \A i \in 1..Len(wire) :
        (FailedFirstSend(i) /\ i < Len(wire)) =>
           wire[i + 1].ev = "connect" /\ wire[i + 1].line = wire[i].line
  /\ \A j \in 1..Len(wire) :
        wire[j].ev = "connect" =>
           /\ j > 1 /\ FailedFirstSend(j - 1) /\ wire[j - 1].line = wire[j].line
           /\ \A k \in 1..Len(wire) :
                 (wire[k].ev = "connect" /\ wire[k].line = wire[j].line) => k = j
           /\ (wire[j].ok /\ j < Len(wire)) =>
                 /\ wire[j + 1].ev = "send"
                 /\ wire[j + 1].line = wire[j].line
                 /\ wire[j + 1].sock = wire[j].sock
                 /\ wire[j + 1].sock = wire[j - 1].sock + 1
           /\ ~wire[j].ok =>
                 /\ spc \in {"closing", "closed"}
                 /\ \A k \in (j + 1)..Len(wire) : wire[k].ev = "close"
  /\ (spc = "reconnecting") =>
        (wire # <<>> /\ FailedFirstSend(Len(wire)) /\ wire[Len(wire)].line = payload)

\* a line was re-sent after a successful reconnect, then the reconnect for a
\* later line failed and the shipper returned with a line still in its queue
C16_Witness ==
  /\ spc = "closed"
  /\ internal_rx # <<>>
  /\ \E j \in 1..Len(wire) :
        /\ wire[j].ev = "connect" /\ wire[j].ok
        /\ wire[j + 1].ev = "send" /\ wire[j + 1].line = wire[j].line
        /\ \E k \in (j + 2)..Len(wire) :
              wire[k].ev = "connect" /\ ~wire[k].ok /\ wire[k].line.n > wire[j].line.n

\* C17: neither the stop signal nor the end of the input keeps the main loop
\* from taking the lines of the internal queue, and, unless a reconnect has
\* failed, the socket is closed only when the internal queue is empty and its
\* sender has been dropped, every line that entered the queue having been sent.
C17_DrainUnlessReconnectFailed ==
  /\ (spc = "select" /\ (shutting_down \/ outClosed) /\ internal_rx # <<>>) =>
        IF StopReady THEN ENABLED MainStop ELSE ENABLED MainRecv
  /\ (spc \in {"closing", "closed"} /\ ~ReconnectFailed) =>
        /\ internal_rx = <<>>
        /\ fpc = "done"
        /\ payload = NoLine
        /\ held = NoLine

\* the socket has been closed after a stop signal that found two lines in the
\* internal queue, and both were sent after it
C17_Witness ==
  /\ spc = "closed"
  /\ shutting_down
  /\ ~ReconnectFailed
  /\ \E i, j \in 1..Len(wire) :
        /\ i < j
        /\ wire[i].ev = "send" /\ wire[j].ev = "send"
        /\ wire[i].line.n < wire[j].line.n

\* C17 as stated: once the input has closed or the stop signal has been
\* taken, the socket is closed only when the internal queue is empty and its
\* sender has been dropped.
C17_DrainAlways ==
  (spc \in {"closing", "closed"} /\ (shutting_down \/ outClosed)) =>
     (internal_rx = <<>> /\ fpc = "done")

\* C18: the lines sent on the socket are in the order in which they were
\* placed on the input channel (so are the stdout lines among themselves and
\* the stderr lines among themselves), no line is delivered twice, and the
\* lines still queued come after every line sent.
C18_LineOrder ==
  /\ \A i, j \in 1..Len(wire) :
        (i < j /\ wire[i].ev = "send" /\ wire[j].ev = "send") =>
           /\ wire[i].line.n <= wire[j].line.n
           /\ (wire[i].ok /\ wire[j].ok) => wire[i].line.n < wire[j].line.n
  /\ \A a, b \in 1..Len(internal_rx) : a < b => internal_rx[a].n < internal_rx[b].n
  /\ \A i \in 1..Len(wire), a \in 1..Len(internal_rx) :
        wire[i].ev = "send" => wire[i].line.n < internal_rx[a].n

\* a stdout line and a stderr line were delivered around a line that was
\* re-sent after a reconnect
C18_Witness ==
  \E i, j, k \in 1..Len(wire) :
     /\ i < j /\ j < k
     /\ wire[i].ev = "send" /\ wire[i].ok /\ wire[i].line.source = "Stdout"
     /\ wire[j].ev = "connect" /\ wire[j].ok
     /\ wire[k].ev = "send" /\ wire[k].ok /\ wire[k].line.source = "Stderr"
     /\ wire[k].line.n > wire[j].line.n

\* ------------------------------------------------------------------------
\* Properties of a run, continued
\* ------------------------------------------------------------------------

\* C19: when the child has emitted batch_size + 1 records and the trace
\* shipper has finished without a failed push, at least two pushes were made,
\* the first with exactly the first batch_size records and the second with the
\* remaining one.
C19_SizeTriggerFirst ==
  (wpc = "ok" /\ nsent = batch_size + 1 /\ ~pushFailed) =>
     /\ Len(pushes) >= 2
     /\ pushes[1] = [k \in 1..batch_size |-> k]
     /\ pushes[2] = <<batch_size + 1>>

\* the line with every complete envelope (from an opening tag to the next
\* closing tag) removed
RECURSIVE WithoutEnvelopes(_)
WithoutEnvelopes(line) ==
  LET s == Find(line, OpenTag)
      e == IF s = -1 THEN -1 ELSE Find(Slice(line, s, Len(line)), CloseTag)
  IN IF s = -1 \/ e = -1 THEN line
     ELSE Slice(line, 0, s) \o WithoutEnvelopes(Slice(line, s + e + CloseLen, Len(line)))

\* the number of complete envelopes of the line
RECURSIVE CompleteEnvelopes(_)
CompleteEnvelopes(line) ==
  LET s == Find(line, OpenTag)
      e == IF s = -1 THEN -1 ELSE Find(Slice(line, s, Len(line)), CloseTag)
  IN IF s = -1 \/ e = -1 THEN 0
     ELSE 1 + CompleteEnvelopes(Slice(line, s + e + CloseLen, Len(line)))

\* C20: for every stdout line of valid UTF-8 whose payloads decode, the text
\* printed to the terminal is the line without its complete envelopes (nothing
\* is printed when that text is blank), and one record is enqueued for each
\* envelope; so a line "a <envelope with a short id and payload> b" prints
\* "a  b" and enqueues one record.
C20_TerminalFidelity ==
  \A i \in 1..Len(terminal) :
     LET line == StdoutLines[terminal[i].k]
         expected == WithoutEnvelopes(line.text)
     IN (line.utf8 /\ Find(line.text, BadPayload) = -1) =>
           /\ IF IsBlank(expected) THEN ~terminal[i].printed
                ELSE terminal[i].printed /\ terminal[i].text = expected
           /\ terminal[i].records = CompleteEnvelopes(line.text)

\* ------------------------------------------------------------------------
\* The handling of one stdout line, main.rs:205-253, on lines put together
\* from a few pieces
\* ------------------------------------------------------------------------

\* number of pieces a line is put together from, at most
MaxPieces == 3

OtherPayload == <<"{">> \o Rep("y", 30) \o <<"}">>

\* an opening tag, an id and the start of a payload, with no closing tag
Unterminated == OpenTag \o Quote \o <<"4">> \o Quote \o <<">", "{">>

\* an envelope whose opening tag holds no quote
NoQuote == OpenTag \o <<"7", ">">> \o ShortPayload \o CloseTag

\* an envelope whose id is longer than the window of main.rs:222
LongId == Envelope(Rep("9", 40), ShortPayload)

\* what a line is made of: text, blanks, and envelopes that are long or
\* short, decodable or not, complete or not, with a quoted id or not
Pieces ==
  << <<"x">>,
     <<" ">>,
     <<"\\x08">>,
     <<"\t">>,
     Envelope(<<"1">>, LongPayload),
     Envelope(<<"2">>, ShortPayload),
     Envelope(<<"3">>, BadPayload),
     Envelope(<<"5">>, OtherPayload),
     Unterminated,
     NoQuote,
     LongId >>

Lines ==
  { Flatten([i \in 1..Len(ks) |-> Pieces[ks[i]]]) :
      ks \in UNION {[1..n -> 1..Len(Pieces)] : n \in 0..MaxPieces} }

ExtInit ==
  /\ inplace = FALSE
  /\ RunStart
  /\ PrepQuiet
  /\ CollQuiet
  /\ ShipQuiet
  /\ MirQuiet
  /\ stdout_line \in Lines
  /\ processed_line = <<>>
  /\ trace_tx = <<>>
  /\ stdout = <<>>
  /\ xpc = "next_line"

\* main.rs:206-252 the body of the loop for one line: the scan, the sends
\* and the println!; a panic ends the handling with what was sent before it
HandleLine ==
  /\ xpc = "next_line"
  /\ LET res == Scan(stdout_line)
         h == Handled(0, res, Len(res.sent))
     IN /\ processed_line' = res.out
        /\ trace_tx' = res.sent
        /\ stdout' = IF h.printed THEN <<h.text>> ELSE <<>>
        /\ xpc' = IF res.panic THEN "panic" ELSE "handled"
  /\ UNCHANGED stdout_line
  /\ UNCHANGED <<runVars, prepVars, collVars, shipVars, mirVars>>

ExtNext == HandleLine

ExtSpec == ExtInit /\ [][ExtNext]_vars

\* the payloads of the complete envelopes of the line, from left to right:
\* what stands between the first ">" of an envelope and its closing tag
RECURSIVE EnvelopePayloads(_)
EnvelopePayloads(line) ==
  LET s == Find(line, OpenTag)
      e == IF s = -1 THEN -1 ELSE Find(Slice(line, s, Len(line)), CloseTag)
      gt == Find(Slice(line, s, Len(line)), <<">">>)
  IN IF s = -1 \/ e = -1 THEN <<>>
     ELSE <<Slice(line, s + gt + 1, s + e)>>
            \o EnvelopePayloads(Slice(line, s + e + CloseLen, Len(line)))

\* every payload of the line decodes as a trace record
AllDecode(line) ==
  \A i \in 1..Len(EnvelopePayloads(line)) : Decodes(EnvelopePayloads(line)[i])

\* C21: once a line whose k complete envelopes all hold a decodable payload
\* has been taken, its handling ends normally, the records sent are the k
\* payloads from left to right, and the cleaned line is the line without its
\* envelopes, wherever the envelopes sit in the line.
C21_EveryEnvelope ==
  (xpc \in {"handled", "panic"} /\ AllDecode(stdout_line)) =>
     /\ xpc = "handled"
     /\ trace_tx = EnvelopePayloads(stdout_line)
     /\ processed_line = WithoutEnvelopes(stdout_line)

\* ------------------------------------------------------------------------
\* Properties of a preparation and of a restore, continued
\* ------------------------------------------------------------------------

\* restore_backup is entered: the step that leaves "idle" or "prepared" for
\* one of the states of the restore
RestoreCalled ==
  /\ ppc \in {"idle", "prepared"}
  /\ ppc' \in {"restore_err", "restoring", "restored"}

\* C22: restore_backup called while the backup archive does not exist returns
\* the error "Backup not found.." and writes no file, then and afterwards; the
\* archive is not created either.
C22_RestoreWithoutArchive ==
  [][ /\ (RestoreCalled /\ ~zipExists) =>
           /\ ppc' = "restore_err"
           /\ fsys' = fsys
           /\ zipExists' = zipExists
           /\ zip' = zip
      /\ (ppc = "restore_err") => (ppc' = ppc /\ fsys' = fsys) ]_vars

\* restore_backup has returned the error, called after a preparation in
\* mirror mode (which makes no archive) that wrote files
C22_Witness ==
  /\ ppc = "restore_err"
  /\ ~zipExists
  /\ wrote # {}

\* ------------------------------------------------------------------------
\* process_items outside the sources (is_inplace = false),
\* processor.rs:150-212, with create_link_or_copy of utils.rs:40-158.
\* A path is the sequence of its components.
\* ------------------------------------------------------------------------

project_root == <<"project">>

\* the directory under the project that receives the mirror
ariana_dir == Append(project_root, ".ariana")

\* the sources: directory d, directory e in it, file x in e
DirD == Append(project_root, "d")

DirE == Append(DirD, "e")

FileX == Append(DirE, "x")

SrcPaths == {DirD, DirE, FileX}

Front(path) == SubSeq(path, 1, Len(path) - 1)

Last(path) == path[Len(path)]

\* Path::starts_with
IsPrefix(base, path) ==
  Len(base) <= Len(path) /\ SubSeq(path, 1, Len(base)) = base

\* utils.rs:212 src_path.strip_prefix(project_root).unwrap()
strip_prefix(path, base) == SubSeq(path, Len(base) + 1, Len(path))

\* utils.rs:211-215 compute_dest_path on paths of components
DestPath(src) == ariana_dir \o strip_prefix(src, project_root)

DiskPaths == {project_root, ariana_dir} \cup SrcPaths \cup {DestPath(p) : p \in SrcPaths}

Missing == [kind |-> "absent", content |-> "", to |-> <<>>]

ADir == [kind |-> "dir", content |-> "", to |-> <<>>]

AFile(content) == [kind |-> "file", content |-> content, to |-> <<>>]

ALink(target) == [kind |-> "link", content |-> "", to |-> target]

\* the project before process_items: the sources, and an empty mirror
Disk0 ==
  [q \in DiskPaths |->
     IF q \in {project_root, ariana_dir, DirD, DirE} THEN ADir
     ELSE IF q = FileX THEN AFile("original")
     ELSE Missing]

\* utils.rs:44 `metadata.len() < 1024 * 1024`
OneMiB == 1048576

\* utils.rs:48 unsafe_extensions
unsafe_extensions == {"html", "htm", "css", "sass", "scss", "vue", "svelte"}

\* utils.rs:40-57 should_copy_not_link, on the metadata of the path
should_copy_not_link(md) ==
  md.len < OneMiB \/ to_lowercase(md.ext) \in unsafe_extensions

\* the metadata a source may have: a directory has no extension
Metas ==
  { md \in [SrcPaths -> [len : {OneMiB - 1, OneMiB}, ext : {"", "css", "bin", "js"}]] :
      /\ md[DirD].ext = ""
      /\ md[DirE].ext = ""
      /\ md[FileX].ext # "" }

\* collector.rs:26-99 what collect_items returns for the project when d, and
\* e in it, are explored or not: a directory is a candidate once seen, a file
\* is seen when the directories above it are explored, and the candidates
\* above a file seen are dropped
ItemsOf(exploreD, exploreE, md) ==
  LET seenDirs == {DirD} \cup (IF exploreD THEN {DirE} ELSE {})
      seenFiles == IF exploreD /\ exploreE THEN {FileX} ELSE {}
      parents == {q \in DiskPaths : \E f \in seenFiles : q # f /\ IsPrefix(q, f)}
      instrumented == {f \in seenFiles : md[f].ext = "js"}
      pairs(S) == {<<src, DestPath(src)>> : src \in S}
  IN [directories_to_link_or_copy |-> pairs(seenDirs \ parents),
      files_to_instrument |-> pairs(instrumented),
      files_to_link_or_copy |-> pairs(seenFiles \ instrumented)]

\* the path an access to `path` reaches, every symbolic link on the way
\* followed (a link of the mirror points to a source, which is no link)
RECURSIVE Res(_, _)
Res(f, path) ==
  IF Len(path) <= 1 THEN path
  ELSE LET q == Append(Res(f, Front(path)), Last(path))
       IN IF f[q].kind = "link" THEN f[q].to ELSE q

\* fs::create_dir_all(path): what is missing on the way is created
RECURSIVE MkdirAll(_, _)
MkdirAll(f, path) ==
  IF Len(path) <= 1 THEN f
  ELSE LET g == MkdirAll(f, Front(path))
           q == Res(g, path)
       IN IF g[q].kind = "absent" THEN [g EXCEPT ![q] = ADir] ELSE g

\* where symlink(src, dest) makes the link: the last component is not followed
LinkPlace(f, dest) == Append(Res(f, Front(dest)), Last(dest))

\* symlink(src, dest) fails when something exists at dest
SymlinkOk(f, dest) ==
  /\ f[Res(f, Front(dest))].kind = "dir"
  /\ f[LinkPlace(f, dest)].kind = "absent"

\* the paths whose entry differs between f and g
Changed(f, g) == {q \in DiskPaths : f[q] # g[q]}

\* the entries of a source directory, fs::read_dir(src)
Kids(src) == {q \in SrcPaths : Front(q) = src}

\* utils.rs:129-158 copy_dir_all(src, dst), or fs::copy for a file: the
\* operations in the order they are made; new_dst = dst.join(file_name)
RECURSIVE CopyPlan(_, _, _)
RECURSIVE PlanOfKids(_, _, _)
CopyPlan(f, src, dst) ==
  IF f[src].kind = "dir"
    THEN <<[op |-> "mkdir", src |-> src, dst |-> dst]>> \o PlanOfKids(f, Kids(src), dst)
  ELSE IF f[src].kind = "file"
    THEN <<[op |-> "copy", src |-> src, dst |-> dst]>>
  ELSE <<>>

PlanOfKids(f, S, dst) ==
  IF S = {} THEN <<>>
  ELSE LET k == CHOOSE k \in S : TRUE
       IN CopyPlan(f, k, Append(dst, Last(k))) \o PlanOfKids(f, S \ {k}, dst)

\* the sources of the pairs of a set of CollectedItems
SrcOf(pairs) == {pr[1] : pr \in pairs}

MirInit ==
  /\ inplace = FALSE
  /\ RunStart
  /\ PrepQuiet
  /\ CollQuiet
  /\ ShipQuiet
  /\ ExtQuiet
  /\ meta \in Metas
  /\ \E exploreD, exploreE \in BOOLEAN : items = ItemsOf(exploreD, exploreE, meta)
  /\ disk = Disk0
  /\ tasks = <<>>
  /\ written = {}
  /\ jpc = "idle"

\* processor.rs:152-208 one task is spawned for every directory and every
\* file to link or copy, and one for the files to instrument
SpawnTasks ==
  /\ jpc = "idle"
  /\ items # <<>>
  /\ jpc' = "tasks"
  /\ tasks' =
       [src \in SrcOf(items.directories_to_link_or_copy)
                  \cup SrcOf(items.files_to_link_or_copy)
                  \cup SrcOf(items.files_to_instrument) |->
          [instrument |-> src \in SrcOf(items.files_to_instrument),
           dest |-> DestPath(src),
           pc |-> "parent",
           tried |-> FALSE,
           plan |-> <<>>]]
  /\ UNCHANGED <<items, meta, disk, written>>
  /\ UNCHANGED <<runVars, prepVars, collVars, shipVars, extVars>>

\* the task of src goes on to position pc with the operations of plan left
Goes(src, pc, plan) ==
  tasks' = [tasks EXCEPT ![src].pc = pc, ![src].plan = plan]

\* processor.rs:98-101, 160-164, 178-182 create_dir_all(dest.parent())
TaskParent ==
  /\ jpc = "tasks"
  /\ \E src \in DOMAIN tasks :
       /\ tasks[src].pc = "parent"
       /\ LET parent == Front(tasks[src].dest)
              g == MkdirAll(disk, parent)
          IN /\ disk' = g
             /\ written' = written \cup
                  {[named |-> parent, landed |-> q] : q \in Changed(disk, g)}
       /\ Goes(src, IF tasks[src].instrument THEN "write" ELSE "link_or_copy", <<>>)
  /\ UNCHANGED <<items, meta, jpc>>
  /\ UNCHANGED <<runVars, prepVars, collVars, shipVars, extVars>>

\* utils.rs:59-115 create_link_or_copy up to the copy: a copy is chosen by
\* should_copy_not_link, else the link is tried and a copy follows its failure;
\* `tried` records that symlink(src, dest) was called
TaskLinkOrCopy ==
  /\ jpc = "tasks"
  /\ \E src \in DOMAIN tasks :
       /\ tasks[src].pc = "link_or_copy"
       /\ LET dest == tasks[src].dest
              copy(called) ==
                /\ tasks' = [tasks EXCEPT ![src].pc = "copy",
                                          ![src].tried = called,
                                          ![src].plan = CopyPlan(disk, src, dest)]
                /\ UNCHANGED <<disk, written>>
          IN IF should_copy_not_link(meta[src])
               THEN copy(FALSE)
               ELSE \E permitted \in BOOLEAN :
                      IF permitted /\ SymlinkOk(disk, dest)
                        THEN /\ disk' = [disk EXCEPT ![LinkPlace(disk, dest)] = ALink(src)]
                             /\ written' = written \cup
                                  {[named |-> dest, landed |-> LinkPlace(disk, dest)]}
                             /\ tasks' = [tasks EXCEPT ![src].pc = "done",
                                                       ![src].tried = TRUE]
                        ELSE copy(TRUE)
  /\ UNCHANGED <<items, meta, jpc>>
  /\ UNCHANGED <<runVars, prepVars, collVars, shipVars, extVars>>

\* std: fs::copy(src, dst) opens dst for writing and truncates it, then
\* copies what it reads from src: nothing when both are the same file
CopiedContent(f, src, target) ==
  IF target = Res(f, src) THEN "" ELSE f[Res(f, src)].content

\* utils.rs:89, 131, 143 the next operation of a copy
TaskCopyStep ==
  /\ jpc = "tasks"
  /\ \E src \in DOMAIN tasks :
       /\ tasks[src].pc = "copy"
       /\ LET step == Head(tasks[src].plan)
              rest == Tail(tasks[src].plan)
              g == MkdirAll(disk, step.dst)
              target == Res(disk, step.dst)
          IN /\ IF step.op = "mkdir"
                  THEN /\ disk' = g
                       /\ written' = written \cup
                            {[named |-> step.dst, landed |-> q] : q \in Changed(disk, g)}
                  ELSE /\ disk' = [disk EXCEPT ![target] =
                                     AFile(CopiedContent(disk, step.src, target))]
                       /\ written' = written \cup
                            {[named |-> step.dst, landed |-> target]}
             /\ Goes(src, IF rest = <<>> THEN "done" ELSE "copy", rest)
  /\ UNCHANGED <<items, meta, jpc>>
  /\ UNCHANGED <<runVars, prepVars, collVars, shipVars, extVars>>

\* processor.rs:102 fs::write(dest_path, instrumented_content)
TaskWrite ==
  /\ jpc = "tasks"
  /\ \E src \in DOMAIN tasks :
       /\ tasks[src].pc = "write"
       /\ LET target == Res(disk, tasks[src].dest)
          IN /\ \E content \in {"instrumented", disk[src].content} :
                  disk' = [disk EXCEPT ![target] = AFile(content)]
             /\ written' = written \cup
                  {[named |-> tasks[src].dest, landed |-> target]}
       /\ Goes(src, "done", <<>>)
  /\ UNCHANGED <<items, meta, jpc>>
  /\ UNCHANGED <<runVars, prepVars, collVars, shipVars, extVars>>

\* processor.rs:211-217 future::join_all(tasks).await, then Ok(())
JoinAll ==
  /\ jpc = "tasks"
  /\ \A src \in DOMAIN tasks : tasks[src].pc = "done"
  /\ jpc' = "done"
  /\ UNCHANGED <<items, meta, disk, tasks, written>>
  /\ UNCHANGED <<runVars, prepVars, collVars, shipVars, extVars>>

MirNext ==
  \/ SpawnTasks
  \/ TaskParent
  \/ TaskLinkOrCopy
  \/ TaskCopyStep
  \/ TaskWrite
  \/ JoinAll

MirSpec == MirInit /\ [][MirNext]_vars

\* C23: while process_items runs outside the sources, every write names a
\* destination ariana_dir / relpath(src, project_root) (or the mirror
\* directory itself), every path reached by a write lies in the mirror
\* directory, and no source is changed.
C23_OriginalsUntouched ==
  /\ \A w \in written :
        /\ w.named \in {DestPath(p) : p \in SrcPaths} \cup {ariana_dir}
        /\ IsPrefix(ariana_dir, w.landed)
  /\ jpc # "idle" => \A p \in SrcPaths : disk[p] = Disk0[p]

\* ------------------------------------------------------------------------
\* Properties of a run, continued
\* ------------------------------------------------------------------------

\* the positions of the payloads of the line that do not decode
Undecodable(line) ==
  {j \in 1..Len(EnvelopePayloads(line)) : ~Decodes(EnvelopePayloads(line)[j])}

\* C24: a stdout line with a complete envelope whose payload does not decode
\* is handled to its end: nothing is enqueued for that payload, one record is
\* enqueued for each of the other envelopes, and run_main does not stop on it.
C24_UndecodableDiscarded ==
  \A i \in 1..Len(terminal) :
     LET line == StdoutLines[terminal[i].k]
     IN (line.utf8 /\ Undecodable(line.text) # {}) =>
           /\ terminal[i].records =
                Len(EnvelopePayloads(line.text)) - Cardinality(Undecodable(line.text))
           /\ ~(i = Len(terminal) /\ mpc = "panic")

\* ------------------------------------------------------------------------
\* Properties of the handling of one line
\* ------------------------------------------------------------------------

\* the line holds an opening tag with no closing tag after it, once its
\* complete envelopes are taken from left to right
RECURSIVE HasUnterminated(_)
HasUnterminated(line) ==
  LET s == Find(line, OpenTag)
      e == IF s = -1 THEN -1 ELSE Find(Slice(line, s, Len(line)), CloseTag)
  IN IF s = -1 THEN FALSE
     ELSE IF e = -1 THEN TRUE
     ELSE HasUnterminated(Slice(line, s + e + CloseLen, Len(line)))

\* C25: once a line that holds an opening tag with no closing tag after it
\* has been taken (its complete envelopes holding decodable payloads), its
\* handling ends normally, the cleaned line keeps everything from that
\* opening tag to the end of the line, and the records sent are those of the
\* envelopes completed before it, and no other.
C25_UnterminatedKept ==
  (/\ xpc \in {"handled", "panic"}
   /\ HasUnterminated(stdout_line)
   /\ AllDecode(stdout_line)) =>
     /\ xpc = "handled"
     /\ processed_line = WithoutEnvelopes(stdout_line)
     /\ trace_tx = EnvelopePayloads(stdout_line)

\* the text holds a character other than space, tab, newline, carriage
\* return and backspace
Visible(text) ==
  \E i \in 1..Len(text) : text[i] \notin {" ", "\t", "\n", "\r", "\\x08"}

\* C26: the cleaned line of a line handled to its end is printed, as it is,
\* if and only if it holds a character other than space, tab, newline,
\* carriage return and backspace; and nothing is printed for a line made only
\* of complete envelopes and such characters.
C26_PrintingRule ==
  /\ xpc = "handled" =>
        stdout = IF Visible(processed_line) THEN <<processed_line>> ELSE <<>>
  /\ (xpc \in {"handled", "panic"} /\ ~Visible(WithoutEnvelopes(stdout_line))) =>
        stdout = <<>>

\* a line with an envelope around which stand only a backspace and blanks
\* has been handled: its record was sent and nothing was printed
C26_Witness ==
  /\ xpc = "handled"
  /\ trace_tx # <<>>
  /\ \E i \in 1..Len(processed_line) : processed_line[i] = "\\x08"
  /\ stdout = <<>>

\* ------------------------------------------------------------------------
\* Properties of a preparation and of a restore, continued
\* ------------------------------------------------------------------------

\* the archive holds an entry under this name with this content
Archived(name, content) ==
  \E k \in 1..Len(zip) : zip[k].name = name /\ zip[k].content = content

\* C27: during an in-place preparation, whenever a source file has been
\* overwritten the archive already holds an entry keyed by the path of that
\* file with its original content; and a file of a failed batch is neither
\* overwritten nor archived.
C27_BackupBeforeOverwrite ==
  (is_inplace /\ ppc \in {"batch", "apply", "archived", "prepared"}) =>
     /\ \A i \in FileIds :
           Src(i) \in wrote => Archived(Src(i), fsys0[Src(i)])
     /\ \A q \in failedFiles :
           /\ q \notin wrote
           /\ fsys[q] = fsys0[q]
           /\ \A k \in 1..Len(zip) : zip[k].name \notin {q, to_string_lossy(q)}

\* ------------------------------------------------------------------------
\* Properties of the trace shipper, continued
\* ------------------------------------------------------------------------

\* C28: no push request carries an empty list of traces, whether it is made
\* on a timer tick, by the size trigger or by the stop branch; and while no
\* record has been sent to the shipper no push request is made.
C28_NoEmptyPush ==
  /\ \A i \in 1..Len(pushes) : pushes[i] # <<>>
  /\ nsent = 0 => pushes = <<>>

\* the shipper has returned after the size trigger pushed a full batch and
\* the stop branch pushed what was left
C28_Witness ==
  /\ wpc = "ok"
  /\ after = "next"
  /\ Len(pushes) >= 2
  /\ Len(pushes[1]) = batch_size

\* the last requests of ps carry the records of buf, all of them and in the
\* order of buf, in bodies of 1 to batch_size records
Drained(ps, buf) ==
  \E n \in 1..Len(ps) :
     /\ Flatten(SubSeq(ps, Len(ps) - n + 1, Len(ps))) = buf
     /\ \A i \in (Len(ps) - n + 1)..Len(ps) :
           Len(ps[i]) >= 1 /\ Len(ps[i]) <= batch_size

\* C29: when the stop signal is taken with records in the buffer, a push is
\* made at once; when the shipper returns from the stop branch, the records
\* the buffer held have all been sent, in buffer order, in requests of at
\* most batch_size records; and once the shipper has returned it makes no
\* push and takes no record from the channel.
C29_DrainOnStop ==
  [][ /\ (stopChan /\ ~stopChan') =>
           IF traces = <<>> THEN wpc' = "ok" /\ pushes' = pushes
                            ELSE wpc' = "push" /\ Len(pushes') = Len(pushes) + 1
      /\ (wpc' \in {"ok", "failed"} /\ after' = "next") => Drained(pushes', traces')
      /\ (wpc \in {"ok", "failed"}) =>
           /\ wpc' = wpc
           /\ pushes' = pushes
           /\ traces' = traces
           /\ chan' = chan ]_vars

\* the shipper has returned from the stop branch, which found two records or
\* more in the buffer
C29_Witness ==
  /\ wpc = "ok"
  /\ after = "next"
  /\ Len(traces) >= 2

\* C30: when a push request fails the shipper returns at once with the
\* error: the failed request is the last one made in the run, whatever the
\* buffer and the channels hold, and the stop signal is not taken.
C30_NoRetry ==
  [][ /\ pushFailed' => (wpc' = "failed" /\ answered' = Len(pushes'))
      /\ pushFailed => (pushes' = pushes /\ traces' = traces /\ stopChan' = stopChan) ]_vars

\* a push made before the stop signal has failed: the records of the buffer
\* and the stop signal that was sent meanwhile are left where they are
C30_Witness ==
  /\ wpc = "failed"
  /\ after = "clear"
  /\ traces # <<>>
  /\ stopChan

\* ------------------------------------------------------------------------
\* Properties of the tasks of process_items outside the sources, continued
\* ------------------------------------------------------------------------

\* the tasks of the entries to link or copy that are past create_link_or_copy's
\* choice between the link and the copy
Chosen ==
  IF jpc = "idle" THEN {}
  ELSE {src \in DOMAIN tasks :
          ~tasks[src].instrument /\ tasks[src].pc \in {"copy", "done"}}

\* C31: for every directory and file to link or copy, symlink is called
\* first unless the extension of the path is one of html, htm, css, sass,
\* scss, vue, svelte, and in that case only; a copy is made only after a
\* failed symlink or for such an extension: the size of the path plays no part.
C31_SymlinkPreference ==
  \A src \in Chosen :
     tasks[src].tried <=> to_lowercase(meta[src].ext) \notin unsafe_extensions

\* ------------------------------------------------------------------------
\* Properties of the handling of one line, continued
\* ------------------------------------------------------------------------

\* C32: the handling of a line, whatever its length and content, ends
\* without a panic (then the reader goes on to the next line).
C32_NeverAborts ==
  xpc # "panic"

\* ------------------------------------------------------------------------
\* Termination of a run
\* ------------------------------------------------------------------------

\* the steps of run_main outside the stdout loop
MainRest ==
  \/ PrepareWorkingDir
  \/ InstrumentInPlace
  \/ SpawnChild
  \/ ReadEof
  \/ WaitChild
  \/ SendStop
  \/ JoinWatcher
  \/ Restore
  \/ Exit

\* a step of the stdout loop is possible: main.rs:205 next_line() has a line
\* to yield, or main.rs:230 the send has room or its receiver is gone
ReaderReady ==
  \/ mpc = "read" /\ pipe # <<>>
  \/ mpc = "send" /\ (wpc \in {"ok", "failed"} \/ Len(chan) < TraceChanCap)

\* weak fairness of the steps of the stdout loop, WF_vars(ReadLine \/ SendTrace),
\* written with the condition under which such a step is possible
ReaderFair ==
  []<>(~ReaderReady) \/ []<><<ReadLine \/ SendTrace>>_vars

\* A run in which run_main and the watch_traces task, both tasks of the
\* tokio runtime, take a step when one stays possible: a send completes when
\* the channel has room or the receiver is gone, select! takes a branch that
\* is ready, process_traces returns, child.wait() returns once the child
\* has exited. Nothing is assumed of the child or of the user.
LiveSpec ==
  Init /\ [][Next]_vars /\ WF_vars(MainRest) /\ ReaderFair /\ WF_vars(WatcherStep)

\* C33: once the child has closed its stdout and exited, run_main ends
\* (normally, with an error or with a panic): the reader, the two channels
\* and the watch_traces task never wait for each other forever.
C33_HarnessTerminates ==
  (child = "exited" /\ ~stdoutOpen) ~> ~Alive

\* run_main has returned normally although watch_traces had ended on a
\* failed push, away from its stop branch, before the stop message was sent
C33_Witness ==
  /\ mpc = "done"
  /\ child = "exited"
  /\ wpc = "failed"
  /\ after = "clear"
  /\ ~stopChan

\* ------------------------------------------------------------------------
\* Termination of the output shipper
\* ------------------------------------------------------------------------

\* the steps of the forwarder task
ForwarderStep == FwdStop \/ FwdRecv \/ FwdSend \/ FwdInputClosed

\* the steps of watch_subprocess_output itself
ShipperStep ==
  \/ Connect
  \/ MainStop
  \/ MainRecv
  \/ MainRecvNone
  \/ WsSend
  \/ Reconnect
  \/ Resend
  \/ CloseSocket

\* A run in which the forwarder task and watch_subprocess_output take a step
\* when one stays possible: select! takes the first branch that is ready, a
\* send to the internal queue completes when there is room, and every socket
\* operation returns. Nothing is assumed of the caller.
LiveShipSpec ==
  ShipInit /\ [][ShipNext]_vars /\ WF_vars(ForwarderStep) /\ WF_vars(ShipperStep)

\* C34: once watch_subprocess_output is connected and has received the stop
\* signal, or its input channel is closed, it closes the socket and returns.
C34_ShipperTerminates ==
  (spc \notin {"connect", "ship_err"} /\ (shutting_down \/ outClosed)) ~> spc = "closed"

\* the stop signal has been received while the internal queue is full and
\* the forwarder waits for room in it
C34_Witness ==
  /\ shutting_down
  /\ spc = "select"
  /\ fpc = "sending"
  /\ Len(internal_rx) = InternalCap

\* ------------------------------------------------------------------------
\* Properties of the output shipper, continued
\* ------------------------------------------------------------------------

\* no send, reconnect or close on the socket has failed
NoSocketFailure == \A i \in 1..Len(wire) : wire[i].ok

\* line n has been sent on the socket
Transmitted(n) ==
  \E i \in 1..Len(wire) : wire[i].ev = "send" /\ wire[i].ok /\ wire[i].line.n = n

\* C35: when the socket has been closed and no socket operation has failed,
\* every line placed on the input channel before the stop signal was sent
\* has been sent on the socket.
C35_NoLineLostAtStop ==
  (spc = "closed" /\ NoSocketFailure) => \A n \in early : Transmitted(n)

\* C36: the close of the socket is the last thing that happens on the
\* network, so that it is issued at most once and nothing is sent after it,
\* and it has been issued exactly when the function has returned from its
\* main loop, whichever way the loop was left.
C36_CloseDiscipline ==
  /\ \A i \in 1..Len(wire) : wire[i].ev = "close" => i = Len(wire)
  /\ spc = "closed" <=> (wire # <<>> /\ wire[Len(wire)].ev = "close")
  /\ spc = "closing" => \A i \in 1..Len(wire) : wire[i].ev # "close"

\* the function has returned after a failed reconnect with a line still in
\* the internal queue, and the one close follows the failed reconnect
C36_Witness ==
  /\ spc = "closed"
  /\ internal_rx # <<>>
  /\ Len(wire) >= 2
  /\ wire[Len(wire)].ev = "close"
  /\ wire[Len(wire) - 1].ev = "connect" /\ ~wire[Len(wire) - 1].ok

\* ------------------------------------------------------------------------
\* Properties of the walk, continued
\* ------------------------------------------------------------------------

\* C37: in the result of collect_items no directory of dirs-to-link-or-copy
\* is above another directory of dirs-to-link-or-copy or above a file of
\* files-to-link-or-copy.
C37_TargetsDoNotNest ==
  cpc = "collected" =>
     \A x \in directories_to_link_or_copy \cup files_to_link_or_copy :
        Ancestors(x) \cap directories_to_link_or_copy = {}

\* the paths matched by the rules of the ignore files of project_root, of
\* the directories above n, and of n itself
ScopedRules(n) == UNION {IgnoreFile(a) : a \in (Ancestors(n) \cup {n}) \ {Outside}}

\* C38: when the walk decides on an entry, the matcher it applies matches
\* the entry exactly when a rule of the ignore files of project_root, of the
\* directories above the entry or of the entry itself does: the ignore file
\* of a directory changes no decision outside the subtree of that directory,
\* whatever the order of the visit.
C38_IgnoreScope ==
  [][ (cpc = "walk" /\ entries # <<>>) =>
         LET path == entries[Len(entries)]
         IN path \in ignore_builder' <=> path \in ScopedRules(path) ]_vars

\* ------------------------------------------------------------------------
\* Runs of the command following one another on the same project
\* ------------------------------------------------------------------------

\* main.rs:134-146 the command is run again on the same project: the files
\* on disk and the archive .ariana/__ariana_backups.zip are as the earlier
\* run left them (restored or not), everything in memory starts afresh
NextRun ==
  /\ ppc \in {"prepared", "restored"}
  /\ ppc' = "idle"
  /\ fsys0' = fsys
  /\ bi' = 0
  /\ resp' = <<>>
  /\ fi' = 0
  /\ rpcs' = <<>>
  /\ failedFiles' = {}
  /\ wrote' = {}
  /\ UNCHANGED <<is_inplace, fsize, files, fsys, zipExists, zip>>
  /\ UNCHANGED <<runVars, sideVars>>

RunsNext == PrepNext \/ NextRun

RunsSpec == PrepInit /\ [][RunsNext]_vars

\* the content of the source file a path names, before any instrumentation
Uninstrumented(path) == Original(path[2])

\* C39: over runs of in-place preparations and restores, every entry of the
\* archive whose name is a source path holds the un-instrumented content of
\* that path, and once restore_backup has returned Ok every source file whose
\* path is valid Unicode has its un-instrumented content again
C39_BackupIntegrity ==
  is_inplace =>
    /\ \A k \in 1..Len(zip) :
         zip[k].name[2] \in FileIds => zip[k].content = Uninstrumented(zip[k].name)
    /\ ppc = "restored" =>
         \A i \in FileIds : to_string_lossy(Src(i)) = Src(i) => fsys[Src(i)] = Uninstrumented(Src(i))
====
